---- MODULE Spec2Model ----
(***************************************************************************)
(* Client side of the x402 pay-per-request protocol (open-aibank/x402-tron) *)
(*                                                                         *)
(*   - x402Fetch, the HTTP retry adapter script                            *)
(*       (examples/skills/tvm-x402/scripts/x402-fetch.ts)                  *)
(*   - ExactEvmClientMechanism.createPaymentPayload, the permit builder    *)
(*       (typescript/packages/x402/src/mechanisms/exactEvm.ts)             *)
(*   - EvmClientSigner (typescript/packages/x402/src/signers/evmSigner.ts) *)
(*   - SufficientBalancePolicy (the policies module)                       *)
(*   - X402Client.register / selectAndPay, whose code is not part of the   *)
(*     sources at hand and is modelled from the specification (4.1)        *)
(*   - the base64-JSON wire representation and its decoders                *)
(*       (x402-fetch.ts, examples/typescript/client/src/main.ts)           *)
(*   - the transfer-authorization validity window (specification, 4.3)     *)
(*   - the token registry (typescript/packages/x402/src/tokens.ts) and the *)
(*     PaymentPermit address table (typescript/packages/x402/src/index.ts) *)
(*                                                                         *)
(* Strings on which the code does prefix or suffix tests, or which it      *)
(* parses as numbers, are sequences of one-character strings.              *)
(***************************************************************************)
EXTENDS Integers, Sequences, FiniteSets, TLC

VARIABLES
  \* ---- x402Fetch
  fpc,          \* position of x402Fetch: start, await1, signing, await2, done
  options,      \* the parsed command-line options and the environment
  requests,     \* the HTTP requests issued so far, in order
  responses,    \* the HTTP responses received so far, in order
  fselected,    \* the requirement x402Fetch chose (<<>> before that)
  fetchResult,  \* what x402Fetch returned or threw
  \* ---- ExactEvmClientMechanism.createPaymentPayload and EvmClientSigner
  mpc,          \* position of createPaymentPayload / ensureAllowance
  mreq,         \* the requirement handed to the builder (<<>> when idle)
  mext,         \* the extensions handed to the builder: <<>> or <<context>>
  mresource,    \* the resource URL handed to the builder
  mech,         \* the mechanism (id, scheme) running the builder
  eaMode,       \* the mode ensureAllowance runs in
  eaArgs,       \* the arguments of the ensureAllowance call (<<>> = none)
  eaReturn,     \* what ensureAllowance returned or threw
  entry,        \* who called the signer: the builder, or a direct caller
  publicClients,\* EvmClientSigner.publicClients: the chain ids with a client
  calls,        \* the signer operations and chain transactions, in order
  permit,       \* the PaymentPermit built (<<>> = none)
  signedMsg,    \* the typed-data message handed to signTypedData
  mresult,      \* what createPaymentPayload returned or threw
  \* ---- SufficientBalancePolicy and X402Client
  cpc,          \* position of the client: config, policy, select, paying, done
  registry,     \* the registered (pattern, mechanism) entries, in order
  policies,     \* the registered policies, in order
  accepts,      \* the envelope's requirement sequence
  cext,         \* the envelope's extensions
  chainIn,      \* the input of the policy being applied
  pIdx,         \* index of the policy being applied
  rIdx,         \* index of the requirement the policy looks at
  affordable,   \* the output the policy has built so far
  balLog,       \* what the policy saw for each requirement it looked at
  chainLog,     \* (input, output) of every policy applied so far
  selInput,     \* <<>> or <<s>>: the sequence mechanism selection looked at
  cselected,    \* <<>> or <<[req, entry]>>: the selection made
  cresult,      \* what selectAndPay returned or threw
  \* ---- one application of a pure function
  upc,          \* off, in (arguments drawn), out (result computed)
  uargs,        \* the arguments the function is applied to
  uresult       \* <<>> or <<r>>: the result

fvars == <<fpc, options, requests, responses, fselected, fetchResult>>
mvars == <<mpc, mreq, mext, mresource, mech, eaMode, eaArgs, eaReturn, entry,
           publicClients, calls, permit, signedMsg, mresult>>
cvars == <<cpc, registry, policies, accepts, cext, chainIn, pIdx, rIdx,
           affordable, balLog, chainLog, selInput, cselected, cresult>>
uvars == <<upc, uargs, uresult>>
vars == <<fvars, mvars, cvars, uvars>>

-----------------------------------------------------------------------------
(* Optional values are sequences of length 0 or 1.                         *)

None == <<>>
Some(x) == <<x>>
IsSome(o) == Len(o) = 1
Get(o) == o[1]

NoResult == [kind |-> "none", error |-> "", value |-> <<>>]
Threw(e) == [kind |-> "error", error |-> e, value |-> <<>>]
Returned(v) == [kind |-> "value", error |-> "", value |-> <<v>>]

\* No pure function is being applied
PureIdle ==
  /\ upc = "off"
  /\ uargs = <<>>
  /\ uresult = None

-----------------------------------------------------------------------------
(* x402Fetch (examples/skills/tvm-x402/scripts/x402-fetch.ts)              *)

PaymentRequiredStatus == 402

\* NETWORKS: the networks createPaymentSignature knows
NETWORKS == {"mainnet", "nile"}

\* USDT_ADDRESSES
USDT_ADDRESSES(n) == IF n = "mainnet" THEN "TR7N" ELSE "TXLA"

\* The script's PaymentRequirement values the server may send
FetchRequirements ==
  [amount : {"1000000"}, currency : {"USDT"}, network : {"mainnet", "nile", "tron"},
   recipient : {"TXxx"}, scheme : {"exact"}]

\* What the PAYMENT-REQUIRED header of a response may hold: nothing, bytes
\* that do not decode, a JSON array of requirements, or one JSON object.
MaxHeaderItems == 2

HeaderItems ==
  UNION {[1..n -> FetchRequirements] : n \in 0..MaxHeaderItems}

PaymentRequiredHeaders ==
  {None}
  \cup {Some([valid |-> FALSE, isArray |-> FALSE, items |-> <<>>])}
  \cup {Some([valid |-> TRUE, isArray |-> TRUE, items |-> s]) : s \in HeaderItems}
  \cup {Some([valid |-> TRUE, isArray |-> FALSE, items |-> <<r>>]) :
          r \in FetchRequirements}

Statuses == {200, PaymentRequiredStatus, 500}

\* A plausible slip: every error status starts the payment path
IsErrorStatus(status) == status >= 400

\* x402Fetch, line 132: the status that starts the payment path
IsPaymentRequired(status) == status = PaymentRequiredStatus

\* A plausible slip: bytes that do not decode count as no requirements
decodeLenient(header) == Some(header.items)

\* decodePaymentRequired: the decoded array, a lone object wrapped in one;
\* <<>> of the outer option when JSON.parse or the base64 decoding throws
decodePaymentRequired(header) ==
  IF ~header.valid THEN None
  ELSE Some(header.items)

\* requirements.find(r => r.network === network) || requirements[0]
RECURSIVE FindNetwork(_, _, _)
FindNetwork(reqs, network, i) ==
  IF i > Len(reqs) THEN None
  ELSE IF reqs[i].network = network THEN Some(reqs[i])
  ELSE FindNetwork(reqs, network, i + 1)

SelectRequirement(reqs, network) ==
  IF IsSome(FindNetwork(reqs, network, 1)) THEN FindNetwork(reqs, network, 1)
  ELSE IF Len(reqs) >= 1 THEN Some(reqs[1])
  ELSE None

\* The headers of the initial request: Content-Type when there is a body
InitialHeaders(body) ==
  [contentType |-> IF IsSome(body) THEN Some("application/json") ELSE None,
   paymentSignature |-> None]

\* A plausible slip: the retry carries the signature header alone
RetryHeadersSignatureOnly(body, sig) ==
  [contentType |-> None, paymentSignature |-> Some(sig)]

\* The headers of the retried request
RetryHeaders(body, sig) ==
  [contentType |-> IF IsSome(body) THEN Some("application/json") ELSE None,
   paymentSignature |-> Some(sig)]

\* createPaymentSignature's payload (before base64)
SignaturePayload(req) ==
  [sender |-> "me", network |-> req.network, scheme |-> req.scheme,
   message |-> [recipient |-> req.recipient, amount |-> req.amount,
                token |-> USDT_ADDRESSES(req.network), network |-> req.network]]

FetchOptions ==
  [method : {"GET", "POST"}, body : {None, Some("{}")},
   network : {"mainnet", "nile"}, dryRun : BOOLEAN, hasKey : BOOLEAN]

FetchIdle ==
  /\ fpc = "off"
  /\ options = [method |-> "GET", body |-> None, network |-> "mainnet",
                dryRun |-> FALSE, hasKey |-> FALSE]
  /\ requests = <<>>
  /\ responses = <<>>
  /\ fselected = None
  /\ fetchResult = NoResult

FetchInit ==
  /\ fpc = "start"
  /\ options \in FetchOptions
  /\ requests = <<>>
  /\ responses = <<>>
  /\ fselected = None
  /\ fetchResult = NoResult

\* Step 1: the initial request is issued (fetch is awaited)
FetchInitial ==
  /\ fpc = "start"
  /\ requests' = Append(requests,
        [method |-> options.method, headers |-> InitialHeaders(options.body),
         body |-> options.body])
  /\ fpc' = "await1"
  /\ UNCHANGED <<options, responses, fselected, fetchResult>>
  /\ UNCHANGED <<mvars, cvars, uvars>>

\* The initial fetch rejects (transport error): x402Fetch rejects with it
FetchInitialFails ==
  /\ fpc = "await1"
  /\ fetchResult' = Threw("fetch failed")
  /\ fpc' = "done"
  /\ UNCHANGED <<options, requests, responses, fselected>>
  /\ UNCHANGED <<mvars, cvars, uvars>>

\* What x402Fetch does with the initial response, up to its next await
AfterInitialResponse(resp) ==
  IF ~IsPaymentRequired(resp.status)
    THEN [pc |-> "done", result |-> Returned(1), sel |-> None]
  ELSE IF ~IsSome(resp.header)
    THEN [pc |-> "done",
          result |-> Threw("402 response missing PAYMENT-REQUIRED header"),
          sel |-> None]
  ELSE IF ~IsSome(decodePaymentRequired(Get(resp.header)))
    THEN [pc |-> "done",
          result |-> Threw("Failed to decode PAYMENT-REQUIRED header"),
          sel |-> None]
  ELSE IF options.dryRun
    THEN [pc |-> "done", result |-> Returned(1), sel |-> None]
  ELSE LET reqs == Get(decodePaymentRequired(Get(resp.header)))
           sel == SelectRequirement(reqs, options.network)
       IN IF ~IsSome(sel)
            \* requirements[0] is undefined: reading its network throws
            THEN [pc |-> "done", result |-> Threw("TypeError"), sel |-> None]
          ELSE IF ~options.hasKey
            THEN [pc |-> "done",
                  result |-> Threw("TRON_PRIVATE_KEY environment variable required"),
                  sel |-> sel]
          ELSE [pc |-> "signing", result |-> NoResult, sel |-> sel]

FetchInitialResponse ==
  /\ fpc = "await1"
  /\ \E st \in Statuses, h \in PaymentRequiredHeaders :
       LET resp == [status |-> st, header |-> h]
           nxt == AfterInitialResponse(resp)
       IN /\ responses' = Append(responses, resp)
          /\ fpc' = nxt.pc
          /\ fetchResult' = nxt.result
          /\ fselected' = nxt.sel
  /\ UNCHANGED <<options, requests>>
  /\ UNCHANGED <<mvars, cvars, uvars>>

\* createPaymentSignature throws: NETWORKS has no entry for the requirement's
\* network, or (with an entry) the TronWeb signing call fails
FetchSignFails ==
  /\ fpc = "signing"
  /\ fetchResult' = Threw(IF Get(fselected).network \notin NETWORKS
                            THEN "Unsupported network" ELSE "sign failed")
  /\ fpc' = "done"
  /\ UNCHANGED <<options, requests, responses, fselected>>
  /\ UNCHANGED <<mvars, cvars, uvars>>

\* Step 5: createPaymentSignature returned; the request is issued again
FetchRetry ==
  /\ fpc = "signing"
  /\ Get(fselected).network \in NETWORKS
  /\ requests' = Append(requests,
        [method |-> options.method,
         headers |-> RetryHeaders(options.body, SignaturePayload(Get(fselected))),
         body |-> options.body])
  /\ fpc' = "await2"
  /\ UNCHANGED <<options, responses, fselected, fetchResult>>
  /\ UNCHANGED <<mvars, cvars, uvars>>

\* The retried fetch rejects
FetchRetryFails ==
  /\ fpc = "await2"
  /\ fetchResult' = Threw("fetch failed")
  /\ fpc' = "done"
  /\ UNCHANGED <<options, requests, responses, fselected>>
  /\ UNCHANGED <<mvars, cvars, uvars>>

\* A plausible slip: a retry answered payment-required pays again
RetryAgainOnPaymentRequired(status) ==
  IF status = PaymentRequiredStatus
    THEN [pc |-> "signing", result |-> NoResult]
  ELSE [pc |-> "done", result |-> Returned(2)]

\* x402Fetch, lines 179-189: the response to the retry is returned,
\* whatever its status
AfterRetryResponse(status) == [pc |-> "done", result |-> Returned(2)]

FetchRetryResponse ==
  /\ fpc = "await2"
  /\ \E st \in Statuses,
        h \in {None, Some([valid |-> FALSE, isArray |-> FALSE, items |-> <<>>])} :
       /\ responses' = Append(responses, [status |-> st, header |-> h])
       /\ fetchResult' = AfterRetryResponse(st).result
       /\ fpc' = AfterRetryResponse(st).pc
  /\ UNCHANGED <<options, requests, fselected>>
  /\ UNCHANGED <<mvars, cvars, uvars>>

-----------------------------------------------------------------------------
(* Strings as sequences of characters                                      *)

Digits == <<"0", "1", "2", "3", "4", "5", "6", "7", "8", "9">>

IsDigit(c) == \E i \in 1..10 : Digits[i] = c
DigitVal(c) == (CHOOSE i \in 1..10 : Digits[i] = c) - 1

\* String.prototype.startsWith
StartsWith(s, prefix) ==
  /\ Len(prefix) <= Len(s)
  /\ SubSeq(s, 1, Len(prefix)) = prefix

\* String.prototype.endsWith
EndsWith(s, suffix) ==
  /\ Len(suffix) <= Len(s)
  /\ SubSeq(s, Len(s) - Len(suffix) + 1, Len(s)) = suffix

\* The value of a decimal string of at most 9 digits (0 for the empty one)
RECURSIVE DigitsValue(_)
DigitsValue(s) ==
  IF s = <<>> THEN 0
  ELSE 10 * DigitsValue(SubSeq(s, 1, Len(s) - 1)) + DigitVal(s[Len(s)])

\* The decimal digits of a natural number below 2^31
RECURSIVE ToDigits(_)
ToDigits(n) ==
  IF n < 10 THEN <<Digits[n + 1]>>
  ELSE ToDigits(n \div 10) \o <<Digits[(n % 10) + 1]>>

\* A bigint is kept exactly as two limbs, value = hi * 10^9 + lo, which
\* holds every integer of up to 18 decimal digits
LimbBase == 10^9

\* The bigint of a number below 10^9
Big(n) == [hi |-> 0, lo |-> n]

\* a + b, a >= b and a > b on bigints
BigAdd(a, b) ==
  [hi |-> a.hi + b.hi + ((a.lo + b.lo) \div LimbBase),
   lo |-> (a.lo + b.lo) % LimbBase]
BigGe(a, b) == a.hi > b.hi \/ (a.hi = b.hi /\ a.lo >= b.lo)
BigGt(a, b) == a.hi > b.hi \/ (a.hi = b.hi /\ a.lo > b.lo)

\* A plausible slip: the string goes through a double (Number) on its way
\* to a bigint, which loses the last bit of an integer above 2^53
BigIntViaNumber(s) ==
  LET hi == IF Len(s) <= 9 THEN 0 ELSE DigitsValue(SubSeq(s, 1, Len(s) - 9))
      lo == IF Len(s) <= 9 THEN DigitsValue(s)
            ELSE DigitsValue(SubSeq(s, Len(s) - 8, Len(s)))
      above == hi > 9007199 \/ (hi = 9007199 /\ lo > 254740992)
  IN [hi |-> hi, lo |-> IF above THEN lo - (lo % 2) ELSE lo]

\* BigInt(s) of a decimal string: its exact integer value (BigInt("") is 0n)
BigInt(s) ==
  IF Len(s) <= 9 THEN [hi |-> 0, lo |-> DigitsValue(s)]
  ELSE [hi |-> DigitsValue(SubSeq(s, 1, Len(s) - 9)),
        lo |-> DigitsValue(SubSeq(s, Len(s) - 8, Len(s)))]

\* The length of the longest prefix of s made of digits
RECURSIVE DigitPrefixLen(_)
DigitPrefixLen(s) ==
  IF s = <<>> \/ ~IsDigit(s[1]) THEN 0
  ELSE 1 + DigitPrefixLen(Tail(s))

\* parseInt(s, 10): the value of the leading digits, <<>> for NaN
parseInt(s) ==
  IF DigitPrefixLen(s) = 0 THEN None
  ELSE Some(DigitsValue(SubSeq(s, 1, DigitPrefixLen(s))))

\* The index of the first ":" of s from position i on, Len(s) + 1 if none
RECURSIVE ColonAt(_, _)
ColonAt(s, i) ==
  IF i > Len(s) THEN Len(s) + 1
  ELSE IF s[i] = ":" THEN i
  ELSE ColonAt(s, i + 1)

\* s.split(':')[1]: <<>> of the option when s has no ":" (undefined)
SplitSecond(s) ==
  LET c1 == ColonAt(s, 1)
  IN IF c1 > Len(s) THEN None
     ELSE Some(SubSeq(s, c1 + 1, ColonAt(s, c1 + 1) - 1))

Eip155Prefix == <<"e", "i", "p", "1", "5", "5", ":">>
TronPrefix == <<"t", "r", "o", "n", ":">>
WildcardSuffix == <<":", "*">>

\* Network ids of the model
NetBscTestnet == Eip155Prefix \o <<"9", "7">>            \* "eip155:97"
NetEvmUnknown == Eip155Prefix \o <<"5">>                 \* "eip155:5"
NetTronMainnet == TronPrefix \o <<"7", "2", "8", "1", "2", "6", "4", "2", "8">>

Networks == {NetBscTestnet, NetEvmUnknown, NetTronMainnet}

\* "eip155:56": a chain the signer knows and the configuration does not
NetBscMainnet == Eip155Prefix \o <<"5", "6">>

\* Decimal amounts of the model
Amt1000000 == <<"1", "0", "0", "0", "0", "0", "0">>
Amt500000 == <<"5", "0", "0", "0", "0", "0">>
Amt10000 == <<"1", "0", "0", "0", "0">>
Amt0 == <<"0">>
\* "9007199254740993", that is 2^53 + 1, which no double holds
AmtAbove2p53 ==
  <<"9", "0", "0", "7", "1", "9", "9", "2", "5", "4", "7", "4", "0", "9", "9", "3">>

-----------------------------------------------------------------------------
(* Network configuration (index.ts) and EvmClientSigner (evmSigner.ts)     *)

EVM_ZERO_ADDRESS == "0x0"

\* CHAIN_IDS: the chain id of every network id the configuration knows
CHAIN_IDS ==
  (NetTronMainnet :> 728126428) @@ (NetBscTestnet :> 97)

\* PAYMENT_PERMIT_ADDRESSES (lines 45-49): the PaymentPermit contract of
\* the networks that have one configured; all of them are tron networks
PAYMENT_PERMIT_ADDRESSES == (NetTronMainnet :> "T...")

TRON_ZERO_ADDRESS == "T9yD14Nj9j7xAB4dbGeiX9h8unkKHxuWwb"

\* getPaymentPermitAddress: the configured address, else the zero address
getPaymentPermitAddress(network) ==
  IF network \in DOMAIN PAYMENT_PERMIT_ADDRESSES
    THEN PAYMENT_PERMIT_ADDRESSES[network]
  ELSE TRON_ZERO_ADDRESS

\* getChainId: the chain id, <<>> when it throws "Unsupported network"
getChainId(network) ==
  IF network \in DOMAIN CHAIN_IDS THEN Some(CHAIN_IDS[network]) ELSE None

\* KIND_MAP: the verifier's encoding of the kind discriminator
KIND_MAP == ("PAYMENT_ONLY" :> 0) @@ ("PAYMENT_AND_DELIVERY" :> 1)

\* EvmClientSigner.parseNetworkToChainId: <<>> when it throws
\* UnsupportedNetworkError
parseNetworkToChainId(network) ==
  IF ~StartsWith(network, Eip155Prefix) THEN None
  ELSE parseInt(Get(SplitSecond(network)))

\* EvmClientSigner.getChain: whether the chain id has a chain definition
getChain(chainId) == chainId \in {1, 11155111, 56, 97}

Modes == {"auto", "interactive", "skip"}

\* What a readContract call may do: answer an amount, or fail (<<>>)
Allowances == {0, 1000000, 1010000}
AllowanceOutcomes == {None} \cup {Some(a) : a \in Allowances}

\* EvmClientSigner.checkAllowance's result for an outcome of readContract:
\* the catch block turns a failed query into 0n
checkAllowance(outcome) == IF IsSome(outcome) THEN Big(Get(outcome)) ELSE Big(0)

Call(op, n) == [op |-> op, n |-> n]

\* The possible contexts of the permit scheme
Contexts ==
  [meta : [kind : {"PAYMENT_ONLY"}, paymentId : {"pid1", "pid2"},
           nonce : {<<"7">>}, validAfter : {100}, validBefore : {200}],
   caller : {None, Some("0xcaller")}]

\* The requirements of the model
Requirements ==
  [scheme : {"exact", "native_exact"},
   network : Networks,
   asset : {"T1"},
   amount : {Amt1000000, Amt500000, AmtAbove2p53},
   payTo : {"0xpayee"},
   fee : {None, Some([feeTo |-> "0xfee", feeAmount |-> Amt10000])}]

\* Requirements on the chain only the signer knows
SignerOnlyRequirements ==
  [scheme : {"exact"},
   network : {NetBscMainnet},
   asset : {"T1"},
   amount : {Amt1000000},
   payTo : {"0xpayee"},
   fee : {None, Some([feeTo |-> "0xfee", feeAmount |-> Amt10000])}]

\* A plausible slip: the requirement's fee amount is not carried over
FeeAmountDropped(req) == Amt0

\* requirements.extra?.fee?.feeAmount || '0', and feeTo || zeroAddress (an
\* empty string is falsy and gets the default too)
FeeAmountOf(req) ==
  IF IsSome(req.fee) /\ Get(req.fee).feeAmount # <<>>
    THEN Get(req.fee).feeAmount
  ELSE Amt0
FeeToOf(req) ==
  IF IsSome(req.fee) /\ Get(req.fee).feeTo # ""
    THEN Get(req.fee).feeTo
  ELSE EVM_ZERO_ADDRESS

\* A plausible slip: the builder makes up the nonce itself
BuildPermitOwnNonce(req, context, buyer) ==
  [meta |-> [kind |-> context.meta.kind,
             paymentId |-> context.meta.paymentId,
             nonce |-> <<"1">>,
             validAfter |-> context.meta.validAfter,
             validBefore |-> context.meta.validBefore],
   buyer |-> buyer,
   caller |-> IF IsSome(context.caller) THEN Get(context.caller)
              ELSE EVM_ZERO_ADDRESS,
   payment |-> [payToken |-> req.asset, payAmount |-> req.amount,
                payTo |-> req.payTo],
   fee |-> [feeTo |-> IF IsSome(req.fee) THEN Get(req.fee).feeTo ELSE EVM_ZERO_ADDRESS,
            feeAmount |-> IF IsSome(req.fee) THEN Get(req.fee).feeAmount ELSE <<"0">>]]

\* createPaymentPayload, lines 58-77: the PaymentPermit
BuildPermit(req, context, buyer) ==
  [meta |-> [kind |-> context.meta.kind,
             paymentId |-> context.meta.paymentId,
             nonce |-> context.meta.nonce,
             validAfter |-> context.meta.validAfter,
             validBefore |-> context.meta.validBefore],
   buyer |-> buyer,
   caller |-> IF IsSome(context.caller) THEN Get(context.caller)
              ELSE EVM_ZERO_ADDRESS,
   payment |-> [payToken |-> req.asset, payAmount |-> req.amount,
                payTo |-> req.payTo],
   fee |-> [feeTo |-> FeeToOf(req), feeAmount |-> FeeAmountOf(req)]]

\* A plausible slip: the allowance is ensured for the pay amount alone
TotalAmountNoFee(p) == BigInt(p.payment.payAmount)

\* createPaymentPayload, line 80: the amount the allowance is ensured for
TotalAmount(p) == BigAdd(BigInt(p.payment.payAmount), BigInt(p.fee.feeAmount))

\* createPaymentPayload, lines 97-116: the typed-data message
PermitForSigning(p) ==
  [meta |-> [kind |-> KIND_MAP[p.meta.kind],
             paymentId |-> p.meta.paymentId,
             nonce |-> BigInt(p.meta.nonce),
             validAfter |-> p.meta.validAfter,
             validBefore |-> p.meta.validBefore],
   buyer |-> p.buyer,
   caller |-> p.caller,
   payment |-> [payToken |-> p.payment.payToken,
                payAmount |-> BigInt(p.payment.payAmount),
                payTo |-> p.payment.payTo],
   fee |-> [feeTo |-> p.fee.feeTo, feeAmount |-> BigInt(p.fee.feeAmount)]]

\* createPaymentPayload, lines 124-133: the PaymentPayload returned
X402Version == 2

\* A plausible slip: the echoed requirement gets the permit's fee filled in
BuildPayloadFilledFee(req, resource, signature, p) ==
  [x402Version |-> X402Version,
   resource |-> [url |-> resource],
   accepted |-> [req EXCEPT !.fee = Some(p.fee)],
   payload |-> [signature |-> signature, paymentPermit |-> p],
   extensions |-> <<>>]

BuildPayload(req, resource, signature, p) ==
  [x402Version |-> X402Version,
   resource |-> [url |-> resource],
   accepted |-> req,
   payload |-> [signature |-> signature, paymentPermit |-> p],
   extensions |-> <<>>]

-----------------------------------------------------------------------------
(* ExactEvmClientMechanism.createPaymentPayload and                        *)
(* EvmClientSigner.ensureAllowance, one action per stretch between awaits  *)

BuyerAddress == "0xbuyer"

PermitIdle ==
  /\ mpc = "idle"
  /\ mreq = None
  /\ mext = None
  /\ mresource = ""
  /\ mech = None
  /\ eaMode = "auto"
  /\ eaArgs = None
  /\ eaReturn = NoResult
  /\ entry = "builder"
  /\ publicClients = {}
  /\ calls = <<>>
  /\ permit = None
  /\ signedMsg = None
  /\ mresult = NoResult

\* A plausible slip: the chain is cached before it is looked up, so a
\* second lookup of an unknown chain finds a client
getPublicClientSetsFirst(chainId, clients) ==
  [ok |-> chainId \in clients \/ getChain(chainId),
   hit |-> chainId \in clients,
   clients |-> clients \cup {chainId}]

\* EvmClientSigner.getPublicClient (lines 233-245): a cached client is
\* returned as it is; otherwise getChain, which throws for a chain it does
\* not know, and the new client is cached
getPublicClient(chainId, clients) ==
  IF chainId \in clients THEN [ok |-> TRUE, hit |-> TRUE, clients |-> clients]
  ELSE IF ~getChain(chainId)
    THEN [ok |-> FALSE, hit |-> FALSE, clients |-> clients]
  ELSE [ok |-> TRUE, hit |-> FALSE, clients |-> clients \cup {chainId}]

\* A plausible slip: skip mode is not told apart and queries like auto
EnsureAllowanceEntryNoSkip(network, mode, clients) ==
  IF ~IsSome(parseNetworkToChainId(network))
    THEN [pc |-> "ea_threw", ret |-> Threw("UnsupportedNetworkError"),
          hit |-> FALSE, clients |-> clients]
  ELSE LET c == getPublicClient(Get(parseNetworkToChainId(network)), clients)
       IN IF ~c.ok
            THEN [pc |-> "ea_threw", ret |-> Threw("UnsupportedNetworkError"),
                  hit |-> c.hit, clients |-> c.clients]
          ELSE [pc |-> "ea_query", ret |-> NoResult,
                hit |-> c.hit, clients |-> c.clients]

\* ensureAllowance up to its first await: skip returns at once; otherwise
\* checkAllowance resolves the chain and its public client, which throws
\* UnsupportedNetworkError for a network or chain it does not know
EnsureAllowanceEntry(network, mode, clients) ==
  IF mode = "skip"
    THEN [pc |-> "ea_returned", ret |-> Returned(TRUE),
          hit |-> FALSE, clients |-> clients]
  ELSE IF ~IsSome(parseNetworkToChainId(network))
    THEN [pc |-> "ea_threw", ret |-> Threw("UnsupportedNetworkError"),
          hit |-> FALSE, clients |-> clients]
  ELSE LET c == getPublicClient(Get(parseNetworkToChainId(network)), clients)
       IN IF ~c.ok
            THEN [pc |-> "ea_threw", ret |-> Threw("UnsupportedNetworkError"),
                  hit |-> c.hit, clients |-> c.clients]
          ELSE [pc |-> "ea_query", ret |-> NoResult,
                hit |-> c.hit, clients |-> c.clients]

\* A plausible slip: the builder goes on to sign without the allowance step
SkipsEnsureAllowance == FALSE

\* Whether createPaymentPayload awaits ensureAllowance before it goes on to
\* build the typed data and sign (lines 79-85)
AwaitsEnsureAllowance == TRUE

\* createPaymentPayload after ensureAllowance has returned (its result is
\* not read): getChainId throws for an unknown network, else signTypedData
\* is called with the typed-data message
AfterAllowance(req, p) ==
  IF ~IsSome(getChainId(req.network))
    THEN [pc |-> "done", result |-> Threw("Unsupported network"),
          msg |-> None, log |-> <<>>]
  ELSE [pc |-> "signing", result |-> NoResult,
        msg |-> Some(PermitForSigning(p)),
        log |-> <<Call("signTypedData.call", 0)>>]

\* A plausible slip: the context is looked at only after the allowance step
\* has been started
OnMissingContextLate ==
  [result |-> Threw("PermitValidationError:missing_context"),
   log |-> <<Call("ensureAllowance.call", 0)>>]

\* createPaymentPayload, lines 50-53: without a context it throws
\* PermitValidationError('missing_context') before it touches the signer
OnMissingContext ==
  [result |-> Threw("PermitValidationError:missing_context"), log |-> <<>>]

\* createPaymentPayload is entered: the context check, the permit, and the
\* call of signer.ensureAllowance(payToken, totalAmount, network)
BuilderStart ==
  /\ mpc = "start"
  /\ entry = "builder"
  /\ IF ~IsSome(mext)
       THEN /\ mresult' = OnMissingContext.result
            /\ calls' = calls \o OnMissingContext.log
            /\ mpc' = "done"
            /\ UNCHANGED <<eaArgs, eaReturn, publicClients, permit, signedMsg>>
       ELSE LET p == BuildPermit(Get(mreq), Get(mext), BuyerAddress)
                args == [token |-> p.payment.payToken, amount |-> TotalAmount(p),
                         network |-> Get(mreq).network]
                e == EnsureAllowanceEntry(args.network, eaMode, publicClients)
                a == AfterAllowance(Get(mreq), p)
            IN /\ permit' = Some(p)
               /\ IF AwaitsEnsureAllowance
                    THEN /\ eaArgs' = Some(args)
                         /\ calls' = Append(calls, Call("ensureAllowance.call", args.amount))
                                      \o (IF e.hit
                                            THEN <<Call("getPublicClient.cached", 0)>>
                                          ELSE <<>>)
                         /\ mpc' = e.pc
                         /\ eaReturn' = e.ret
                         /\ publicClients' = e.clients
                         /\ UNCHANGED <<signedMsg, mresult>>
                    ELSE /\ mpc' = a.pc
                         /\ mresult' = a.result
                         /\ signedMsg' = a.msg
                         /\ calls' = calls \o a.log
                         /\ UNCHANGED <<eaArgs, eaReturn, publicClients>>
  /\ UNCHANGED <<mreq, mext, mresource, mech, eaMode, entry>>
  /\ UNCHANGED <<fvars, cvars, uvars>>

\* ensureAllowance is called directly, in any mode
DirectStart ==
  /\ mpc = "start"
  /\ entry = "direct"
  /\ LET args == [token |-> Get(mreq).asset,
                  amount |-> BigAdd(BigInt(Get(mreq).amount),
                                    BigInt(FeeAmountOf(Get(mreq)))),
                  network |-> Get(mreq).network]
         e == EnsureAllowanceEntry(args.network, eaMode, publicClients)
     IN /\ eaArgs' = Some(args)
        /\ calls' = Append(calls, Call("ensureAllowance.call", args.amount))
                     \o (IF e.hit THEN <<Call("getPublicClient.cached", 0)>>
                         ELSE <<>>)
        /\ mpc' = e.pc
        /\ eaReturn' = e.ret
        /\ publicClients' = e.clients
  /\ UNCHANGED <<mreq, mext, mresource, mech, eaMode, entry, permit, signedMsg, mresult>>
  /\ UNCHANGED <<fvars, cvars, uvars>>

\* The amount of the approve transaction (line 210): 2^256 - 1, kept as a
\* symbol
MaxUint256 == "2^256-1"

\* A plausible slip: an insufficient allowance is approved in every mode
AfterCheckAllowanceApproves(current, amount, mode) ==
  IF BigGe(current, amount)
    THEN [pc |-> "ea_returned", ret |-> Returned(TRUE), log |-> <<>>]
  ELSE [pc |-> "ea_write", ret |-> NoResult,
        log |-> <<Call("approve.send", MaxUint256)>>]

\* ensureAllowance after checkAllowance's readContract has settled
\* (lines 176-211): enough allowance returns true; interactive throws;
\* auto sends the approve transaction for the maximal amount
AfterCheckAllowance(current, amount, mode) ==
  IF BigGe(current, amount)
    THEN [pc |-> "ea_returned", ret |-> Returned(TRUE), log |-> <<>>]
  ELSE IF mode = "interactive"
    THEN [pc |-> "ea_threw", ret |-> Threw("InsufficientAllowanceError"), log |-> <<>>]
  ELSE [pc |-> "ea_write", ret |-> NoResult,
        log |-> <<Call("approve.send", MaxUint256)>>]

EnsureAllowanceQuery ==
  /\ mpc = "ea_query"
  /\ \E outcome \in AllowanceOutcomes :
       LET current == checkAllowance(outcome)
           nxt == AfterCheckAllowance(current, Get(eaArgs).amount, eaMode)
       IN /\ calls' = Append(calls,
                 Call(IF IsSome(outcome) THEN "allowance.answer" ELSE "allowance.failure",
                      current)) \o nxt.log
          /\ mpc' = nxt.pc
          /\ eaReturn' = nxt.ret
  /\ UNCHANGED <<mreq, mext, mresource, mech, eaMode, eaArgs, entry, publicClients,
                 permit, signedMsg, mresult>>
  /\ UNCHANGED <<fvars, cvars, uvars>>

\* writeContract settles: a transaction hash, and the receipt is awaited.
\* The log entry holds the spender the approval names (line 194)
EnsureAllowanceSent ==
  /\ mpc = "ea_write"
  /\ mpc' = "ea_receipt"
  /\ calls' = Append(calls,
        Call("approve.sent", getPaymentPermitAddress(Get(eaArgs).network)))
  /\ UNCHANGED <<mreq, mext, mresource, mech, eaMode, eaArgs, eaReturn, entry,
                 publicClients, permit, signedMsg, mresult>>
  /\ UNCHANGED <<fvars, cvars, uvars>>

\* writeContract throws: the catch block returns false (lines 224-227)
ApproveFailedResult == Returned(FALSE)

EnsureAllowanceSendFails ==
  /\ mpc = "ea_write"
  /\ mpc' = "ea_returned"
  /\ eaReturn' = ApproveFailedResult
  /\ calls' = Append(calls, Call("approve.failed", 0))
  /\ UNCHANGED <<mreq, mext, mresource, mech, eaMode, eaArgs, entry, publicClients,
                 permit, signedMsg, mresult>>
  /\ UNCHANGED <<fvars, cvars, uvars>>

\* A plausible slip: any receipt counts as a confirmation
ReceiptAlwaysSuccess(status) == Returned(TRUE)

\* waitForTransactionReceipt settles: true iff the status is success; a
\* reverted transaction returns false, and so does a throw (lines 215-227)
ReceiptResult(status) == Returned(status = "success")

EnsureAllowanceReceipt ==
  /\ mpc = "ea_receipt"
  /\ \E status \in {"success", "reverted", "threw"} :
       /\ eaReturn' = (IF status = "threw" THEN ApproveFailedResult
                       ELSE ReceiptResult(status))
       /\ calls' = Append(calls,
             Call(IF status = "success" THEN "approve.confirmed" ELSE "approve.failed", 0))
  /\ mpc' = "ea_returned"
  /\ UNCHANGED <<mreq, mext, mresource, mech, eaMode, eaArgs, entry, publicClients,
                 permit, signedMsg, mresult>>
  /\ UNCHANGED <<fvars, cvars, uvars>>

\* The builder's await of ensureAllowance resumes with its result
BuilderAfterAllowance ==
  /\ mpc = "ea_returned"
  /\ entry = "builder"
  /\ LET a == AfterAllowance(Get(mreq), Get(permit))
     IN /\ mpc' = a.pc
        /\ mresult' = a.result
        /\ signedMsg' = a.msg
        /\ calls' = Append(calls,
              Call("ensureAllowance.return",
                   IF Get(eaReturn.value) THEN 1 ELSE 0)) \o a.log
  /\ UNCHANGED <<mreq, mext, mresource, mech, eaMode, eaArgs, eaReturn, entry,
                 publicClients, permit>>
  /\ UNCHANGED <<fvars, cvars, uvars>>

\* ensureAllowance rejected: the builder rejects with the same error
BuilderAllowanceThrew ==
  /\ mpc = "ea_threw"
  /\ entry = "builder"
  /\ mresult' = eaReturn
  /\ mpc' = "done"
  /\ calls' = Append(calls, Call("ensureAllowance.throw", 0))
  /\ UNCHANGED <<mreq, mext, mresource, mech, eaMode, eaArgs, eaReturn, entry,
                 publicClients, permit, signedMsg>>
  /\ UNCHANGED <<fvars, cvars, uvars>>

\* A direct call of ensureAllowance settles
DirectReturn ==
  /\ mpc \in {"ea_returned", "ea_threw"}
  /\ entry = "direct"
  /\ mresult' = eaReturn
  /\ mpc' = "done"
  /\ calls' = Append(calls,
        IF mpc = "ea_threw" THEN Call("ensureAllowance.throw", 0)
        ELSE Call("ensureAllowance.return", IF Get(eaReturn.value) THEN 1 ELSE 0))
  /\ UNCHANGED <<mreq, mext, mresource, mech, eaMode, eaArgs, eaReturn, entry,
                 publicClients, permit, signedMsg>>
  /\ UNCHANGED <<fvars, cvars, uvars>>

\* signTypedData settles with a signature: the PaymentPayload is returned
SignReturns ==
  /\ mpc = "signing"
  /\ mresult' = Returned(BuildPayload(Get(mreq), mresource, "0xsig", Get(permit)))
  /\ mpc' = "done"
  /\ calls' = Append(calls, Call("signTypedData.return", 0))
  /\ UNCHANGED <<mreq, mext, mresource, mech, eaMode, eaArgs, eaReturn, entry,
                 publicClients, permit, signedMsg>>
  /\ UNCHANGED <<fvars, cvars, uvars>>

\* A plausible slip: a failed signing is tried again
OnSignFailureRetry(error) ==
  [pc |-> "signing", result |-> NoResult,
   log |-> <<Call("signTypedData.throw", 0), Call("signTypedData.call", 0)>>]

\* createPaymentPayload, line 118: the await of signTypedData is in no try
\* block, so its rejection is the builder's
OnSignFailure(error) ==
  [pc |-> "done", result |-> Threw(error),
   log |-> <<Call("signTypedData.throw", 0)>>]

\* signTypedData rejects: the builder rejects with the signing error
SignThrows ==
  /\ mpc = "signing"
  /\ mresult' = OnSignFailure("signing failed").result
  /\ mpc' = OnSignFailure("signing failed").pc
  /\ calls' = calls \o OnSignFailure("signing failed").log
  /\ UNCHANGED <<mreq, mext, mresource, mech, eaMode, eaArgs, eaReturn, entry,
                 publicClients, permit, signedMsg>>
  /\ UNCHANGED <<fvars, cvars, uvars>>

BuilderSteps ==
  \/ BuilderStart
  \/ EnsureAllowanceQuery
  \/ EnsureAllowanceSent
  \/ EnsureAllowanceSendFails
  \/ EnsureAllowanceReceipt
  \/ BuilderAfterAllowance
  \/ BuilderAllowanceThrew
  \/ SignReturns
  \/ SignThrows

-----------------------------------------------------------------------------
(* SufficientBalancePolicy (the policies module)                           *)

\* A plausible slip: the wildcard prefix is cut before the colon
matchPatternNoColon(pattern, network) ==
  IF pattern = network THEN TRUE
  ELSE IF EndsWith(pattern, WildcardSuffix)
    THEN StartsWith(network, SubSeq(pattern, 1, Len(pattern) - 2))
  ELSE FALSE

\* matchPattern(pattern, network)
matchPattern(pattern, network) ==
  IF pattern = network THEN TRUE
  ELSE IF EndsWith(pattern, WildcardSuffix)
    THEN StartsWith(network, SubSeq(pattern, 1, Len(pattern) - 1))
  ELSE FALSE

PatAny == <<"*">>
PatEip155 == Eip155Prefix \o <<"*">>
PatBscTestnet == NetBscTestnet
PatTron == TronPrefix \o <<"*">>

\* findSigner: the first entry whose pattern is "*" or matches the network
RECURSIVE findSignerFrom(_, _, _)
findSignerFrom(signers, network, i) ==
  IF i > Len(signers) THEN None
  ELSE IF signers[i].pattern = PatAny \/ matchPattern(signers[i].pattern, network)
    THEN Some(signers[i].signer)
  ELSE findSignerFrom(signers, network, i + 1)

\* A plausible slip: the last matching entry is taken
findSignerLast(signers, network) ==
  LET hits == {i \in 1..Len(signers) :
                 signers[i].pattern = PatAny
                   \/ matchPattern(signers[i].pattern, network)}
  IN IF hits = {} THEN None
     ELSE Some(signers[CHOOSE i \in hits : \A j \in hits : j <= i].signer)

findSigner(signers, network) == findSignerFrom(signers, network, 1)

\* The signer tables a SufficientBalancePolicy is constructed with: a single
\* signer (pattern "*"), or patterns mapped to signers
PolicySingle == <<[pattern |-> PatAny, signer |-> "s1"]>>
PolicyEvmOnly == <<[pattern |-> PatEip155, signer |-> "s1"]>>
PolicyTwo == <<[pattern |-> PatBscTestnet, signer |-> "s1"],
               [pattern |-> PatTron, signer |-> "s2"]>>
PolicyOverlap == <<[pattern |-> PatEip155, signer |-> "s1"],
                   [pattern |-> PatAny, signer |-> "s2"]>>

\* What the balanceOf readContract call may do: answer, or fail (<<>>)
Balances == {500000, 1010000}
BalanceOutcomes == {None} \cup {Some(b) : b \in Balances}

\* EvmClientSigner.checkBalance: <<>> when it throws (the network or chain
\* is not one it knows); the catch block turns a failed query into 0n
checkBalance(network, outcome) ==
  IF ~IsSome(parseNetworkToChainId(network)) THEN None
  ELSE IF ~getChain(Get(parseNetworkToChainId(network))) THEN None
  ELSE IF IsSome(outcome) THEN Some(Big(Get(outcome)))
  ELSE Some(Big(0))

\* apply, lines 94-97: amount plus the fee amount when there is one
Needed(req) ==
  IF IsSome(req.fee) /\ Get(req.fee).feeAmount # <<>>
    THEN BigAdd(BigInt(req.amount), BigInt(Get(req.fee).feeAmount))
  ELSE BigInt(req.amount)

\* Plausible slips in the comparison of line 104
AffordableStrict(balance, needed) == BigGt(balance, needed)
AffordableFlipped(balance, needed) == BigGe(needed, balance)

\* apply, line 104
Affordable(balance, needed) == BigGe(balance, needed)

\* One iteration of apply's loop: what the policy saw and whether it keeps
\* the requirement
Look(signers, req, outcome) ==
  LET signer == findSigner(signers, req.network)
      answer == checkBalance(req.network, outcome)
  IN IF ~IsSome(signer)
       THEN [req |-> req, signer |-> None, saw |-> "nosigner",
             balance |-> Big(0), kept |-> TRUE]
     ELSE IF ~IsSome(answer)
       THEN [req |-> req, signer |-> signer, saw |-> "threw",
             balance |-> Big(0), kept |-> TRUE]
     ELSE [req |-> req, signer |-> signer,
           saw |-> IF IsSome(outcome) THEN "answered" ELSE "queryfailed",
           balance |-> Get(answer),
           kept |-> Affordable(Get(answer), Needed(req))]

ClientIdle ==
  /\ cpc = "off"
  /\ registry = <<>>
  /\ policies = <<>>
  /\ accepts = <<>>
  /\ cext = None
  /\ chainIn = <<>>
  /\ pIdx = 0
  /\ rIdx = 0
  /\ affordable = <<>>
  /\ balLog = <<>>
  /\ chainLog = <<>>
  /\ selInput = None
  /\ cselected = None
  /\ cresult = NoResult

\* A plausible slip: a kept requirement is put in front of the output
pushFront(kept, req) == <<req>> \o kept

\* affordable.push(req)
push(kept, req) == Append(kept, req)

\* apply looks at the next requirement of its input
PolicyLook ==
  /\ cpc = "policy"
  /\ rIdx <= Len(chainIn)
  /\ \E outcome \in BalanceOutcomes :
       LET l == Look(policies[pIdx], chainIn[rIdx], outcome)
       IN /\ balLog' = Append(balLog, [p |-> pIdx, i |-> rIdx, look |-> l])
          /\ affordable' = IF l.kept THEN push(affordable, chainIn[rIdx])
                           ELSE affordable
  /\ rIdx' = rIdx + 1
  /\ UNCHANGED <<cpc, registry, policies, accepts, cext, chainIn, pIdx, chainLog,
                 selInput, cselected, cresult>>
  /\ UNCHANGED <<fvars, mvars, uvars>>

\* A plausible slip: every policy is given the envelope's sequence
NextInputFromOffer(offered, output) == offered

\* What the chain hands on after a policy returned: that policy's output
NextInput(offered, output) == output

\* apply returns its output: the next policy gets it, or the chain is done
PolicyReturn ==
  /\ cpc = "policy"
  /\ rIdx > Len(chainIn)
  /\ chainLog' = Append(chainLog, [input |-> chainIn, output |-> affordable])
  /\ chainIn' = NextInput(accepts, affordable)
  /\ affordable' = <<>>
  /\ rIdx' = 1
  /\ pIdx' = pIdx + 1
  /\ cpc' = IF pIdx < Len(policies) THEN "policy" ELSE "select"
  /\ UNCHANGED <<registry, policies, accepts, cext, balLog, selInput, cselected, cresult>>
  /\ UNCHANGED <<fvars, mvars, uvars>>

-----------------------------------------------------------------------------
(* X402Client: register and selectAndPay (specification, 4.1)              *)

MaxRegistered == 2
MaxAccepts == 2

\* The register calls of the model
RegisterCalls ==
  {[pattern |-> PatEip155, mech |-> [id |-> 1, scheme |-> "exact"]],
   [pattern |-> PatBscTestnet, mech |-> [id |-> 2, scheme |-> "exact"]],
   [pattern |-> PatTron, mech |-> [id |-> 2, scheme |-> "exact"]]}

\* The requirements a server offers in the model
ReqExactBsc ==
  [scheme |-> "exact", network |-> NetBscTestnet, asset |-> "T1",
   amount |-> Amt1000000, payTo |-> "0xpayee", fee |-> None]
ReqNativeBsc ==
  [scheme |-> "native_exact", network |-> NetBscTestnet, asset |-> "T1",
   amount |-> Amt500000, payTo |-> "0xpayee",
   fee |-> Some([feeTo |-> "0xfee", feeAmount |-> Amt10000])]
ReqExactTron ==
  [scheme |-> "exact", network |-> NetTronMainnet, asset |-> "T1",
   amount |-> Amt500000, payTo |-> "0xpayee", fee |-> None]

OfferedRequirements == {ReqExactBsc, ReqNativeBsc, ReqExactTron}

SeqsUpTo(S, n) == UNION {[1..k -> S] : k \in 0..n}

\* The policy chains a client is constructed with
PolicyChains == {<<>>, <<PolicySingle>>, <<PolicyEvmOnly, PolicySingle>>}

DefaultContext ==
  [meta |-> [kind |-> "PAYMENT_ONLY", paymentId |-> "pid1", nonce |-> <<"7">>,
             validAfter |-> 100, validBefore |-> 200],
   caller |-> None]

\* Whether a registered entry serves a requirement: its pattern matches the
\* requirement's network and its mechanism's scheme is the requirement's
EntryMatches(e, req) ==
  /\ matchPattern(e.pattern, req.network)
  /\ e.mech.scheme = req.scheme

\* A plausible slip: the last registered entry that serves the requirement
findMechanismLast(reg, req) ==
  LET hits == {i \in 1..Len(reg) : EntryMatches(reg[i], req)}
  IN IF hits = {} THEN None
     ELSE Some(reg[CHOOSE i \in hits : \A j \in hits : j <= i])

\* The first registered entry that serves the requirement
RECURSIVE findMechanismFrom(_, _, _)
findMechanismFrom(reg, req, i) ==
  IF i > Len(reg) THEN None
  ELSE IF EntryMatches(reg[i], req) THEN Some(reg[i])
  ELSE findMechanismFrom(reg, req, i + 1)

findMechanism(reg, req) == findMechanismFrom(reg, req, 1)

\* A plausible slip: the last served requirement of the sequence is taken
selectLastFrom(reg, reqs, j) ==
  LET served == {k \in j..Len(reqs) : IsSome(findMechanism(reg, reqs[k]))}
  IN IF served = {} THEN None
     ELSE LET k == CHOOSE k \in served : \A m \in served : m <= k
          IN Some([req |-> reqs[k], idx |-> k,
                   entry |-> Get(findMechanism(reg, reqs[k]))])

\* The first requirement of the sequence that some registered entry serves
RECURSIVE selectFrom(_, _, _)
selectFrom(reg, reqs, j) ==
  IF j > Len(reqs) THEN None
  ELSE IF IsSome(findMechanism(reg, reqs[j]))
    THEN Some([req |-> reqs[j], idx |-> j, entry |-> Get(findMechanism(reg, reqs[j]))])
  ELSE selectFrom(reg, reqs, j + 1)

\* The error when no requirement is served: the network error when no
\* pattern matches any requirement's network, else the scheme error
UnsupportedError(reg, reqs) ==
  IF \E i \in 1..Len(reg), j \in 1..Len(reqs) :
       matchPattern(reg[i].pattern, reqs[j].network)
    THEN "UnsupportedSchemeError"
  ELSE "UnsupportedNetworkError"

\* register(networkPattern, mechanism)
Register ==
  /\ cpc = "config"
  /\ Len(registry) < MaxRegistered
  /\ \E r \in RegisterCalls : registry' = Append(registry, r)
  /\ UNCHANGED <<cpc, policies, accepts, cext, chainIn, pIdx, rIdx, affordable,
                 balLog, chainLog, selInput, cselected, cresult>>
  /\ UNCHANGED <<fvars, mvars, uvars>>

\* A plausible slip: only the envelope's first requirement is considered
OffersFirstOnly(offered) ==
  IF offered = <<>> THEN <<>> ELSE <<offered[1]>>

\* The sequence the policy chain starts on, and so the one selection looks
\* at when no policy is registered: the envelope's accepts as it is
Offers(offered) == offered

\* selectAndPay(envelope, resourceUrl), step 1: the policy chain starts on
\* the envelope's requirement sequence
SelectAndPay ==
  /\ cpc = "config"
  /\ chainIn' = Offers(accepts)
  /\ pIdx' = 1
  /\ rIdx' = 1
  /\ cpc' = IF policies = <<>> THEN "select" ELSE "policy"
  /\ UNCHANGED <<registry, policies, accepts, cext, affordable, balLog, chainLog,
                 selInput, cselected, cresult>>
  /\ UNCHANGED <<fvars, mvars, uvars>>

\* A plausible slip: with no served requirement the first one is paid by
\* the first registered mechanism
SelectionOrFirst(reg, reqs) ==
  IF reqs = <<>> THEN [error |-> "NoAcceptablePaymentError", sel |-> None]
  ELSE IF ~IsSome(selectFrom(reg, reqs, 1))
    THEN IF reg = <<>> THEN [error |-> UnsupportedError(reg, reqs), sel |-> None]
         ELSE [error |-> "", sel |-> Some([req |-> reqs[1], idx |-> 1, entry |-> reg[1]])]
  ELSE [error |-> "", sel |-> selectFrom(reg, reqs, 1)]

\* selectAndPay, steps 2-4: the empty sequence fails; else the first
\* requirement a mechanism serves is handed to that mechanism
SelectionOf(reg, reqs) ==
  IF reqs = <<>> THEN [error |-> "NoAcceptablePaymentError", sel |-> None]
  ELSE IF ~IsSome(selectFrom(reg, reqs, 1))
    THEN [error |-> UnsupportedError(reg, reqs), sel |-> None]
  ELSE [error |-> "", sel |-> selectFrom(reg, reqs, 1)]

ResourceUrl == "https://api/premium"
ResourceUrls == {ResourceUrl, "https://api/other"}

Select ==
  /\ cpc = "select"
  /\ selInput' = Some(chainIn)
  /\ LET s == SelectionOf(registry, chainIn)
     IN IF ~IsSome(s.sel)
          THEN /\ cresult' = Threw(s.error)
               /\ cpc' = "done"
               /\ UNCHANGED <<cselected, mvars>>
          ELSE /\ cselected' = s.sel
               /\ cpc' = "paying"
               /\ mpc' = "start"
               /\ mreq' = Some(Get(s.sel).req)
               /\ mext' = cext
               /\ mresource' = ResourceUrl
               /\ mech' = Some(Get(s.sel).entry.mech)
               /\ UNCHANGED <<cresult, eaMode, eaArgs, eaReturn, entry, publicClients,
                              calls, permit, signedMsg, mresult>>
  /\ UNCHANGED <<registry, policies, accepts, cext, chainIn, pIdx, rIdx, affordable,
                 balLog, chainLog>>
  /\ UNCHANGED <<fvars, uvars>>

\* selectAndPay, step 5: the mechanism's payload (or error) is the client's
ClientReturn ==
  /\ cpc = "paying"
  /\ mpc = "done"
  /\ cresult' = mresult
  /\ cpc' = "done"
  /\ UNCHANGED <<registry, policies, accepts, cext, chainIn, pIdx, rIdx, affordable,
                 balLog, chainLog, selInput, cselected>>
  /\ UNCHANGED <<fvars, mvars, uvars>>

-----------------------------------------------------------------------------
(* Specifications                                                          *)

\* One cycle of x402Fetch
InitFetch == FetchInit /\ PermitIdle /\ ClientIdle /\ PureIdle

NextFetch ==
  \/ FetchInitial
  \/ FetchInitialFails
  \/ FetchInitialResponse
  \/ FetchSignFails
  \/ FetchRetry
  \/ FetchRetryFails
  \/ FetchRetryResponse

SpecFetch == InitFetch /\ [][NextFetch]_vars

\* Every awaited call (fetch, the signing call) settles: it returns or fails
SpecFetchLive == SpecFetch /\ WF_vars(NextFetch)

\* One application of matchPattern to a pattern and a network id
MaxStrLen == 3

MatchAlphabet == {"n", ":", "*"}

NsWild == <<"n", "s", ":", "*">>            \* "ns:*"
NsxWild == <<"n", "s", "x", ":", "*">>      \* "nsx:*"
Ns123 == <<"n", "s", ":", "1", "2", "3">>   \* "ns:123"
NsColon == <<"n", "s", ":">>                \* "ns:"
Nsx123 == <<"n", "s", "x", ":", "1", "2", "3">>  \* "nsx:123"
NsBare == <<"n", "s">>                      \* "ns"

MatchStrings ==
  SeqsUpTo(MatchAlphabet, MaxStrLen)
  \cup {NsWild, NsxWild, Ns123, NsColon, Nsx123, NsBare}

InitMatch ==
  /\ upc = "in"
  /\ uargs \in [pattern : MatchStrings, network : MatchStrings]
  /\ uresult = None
  /\ FetchIdle /\ PermitIdle /\ ClientIdle

MatchApply ==
  /\ upc = "in"
  /\ uresult' = Some(matchPattern(uargs.pattern, uargs.network))
  /\ upc' = "out"
  /\ UNCHANGED <<uargs, fvars, mvars, cvars>>

NextMatch == MatchApply

SpecMatch == InitMatch /\ [][NextMatch]_vars

\* The transfer-authorization builder's validity window (specification
\* 4.3: [now, now + fixed_duration)), over a clock that ticks between calls
MaxNow == 60
MaxWindows == 2
ValidityDuration == 3600

\* A plausible slip: the window opens at time 0 whatever the clock says
createValidityWindowFromZero(now, duration) ==
  [validAfter |-> 0, validBefore |-> now + duration]

createValidityWindow(now, duration) ==
  [validAfter |-> now, validBefore |-> now + duration]

InitWindow ==
  /\ upc = "in"
  /\ uargs \in [now : 0..MaxNow]
  /\ uresult = <<>>
  /\ FetchIdle /\ PermitIdle /\ ClientIdle

\* Time passes
WindowTick ==
  /\ upc = "in"
  /\ uargs.now < MaxNow
  /\ uargs' = [now |-> uargs.now + 1]
  /\ UNCHANGED <<upc, uresult, fvars, mvars, cvars>>

\* The builder makes a validity window at the current time
WindowCreate ==
  /\ upc = "in"
  /\ Len(uresult) < MaxWindows
  /\ uresult' = Append(uresult, createValidityWindow(uargs.now, ValidityDuration))
  /\ UNCHANGED <<upc, uargs, fvars, mvars, cvars>>

NextWindow ==
  \/ WindowTick
  \/ WindowCreate

SpecWindow == InitWindow /\ [][NextWindow]_vars

-----------------------------------------------------------------------------
(* The wire representation of a header value: the base64 text of the UTF-8 *)
(* bytes of its JSON text.  Texts are sequences of one-character strings,  *)
(* bytes are numbers 0..255.                                               *)

\* A sequence given as a function, element by element, as a tuple
Tuple(f) == SubSeq(f, 1, Len(f))

\* The characters of a string
Chars(str) == Tuple([i \in 1..Len(str) |-> SubSeq(str, i, i)])

\* The printable ASCII characters, code 32 (space) to code 126 (~), in
\* order; the grave accent (code 96) cannot be written in a string here
Printable ==
  Chars(" !\"#$%&'()*+,-./0123456789:;<=>?@ABCDEFGHIJKLMNOPQRSTUVWXYZ[\\]^_")
  \o <<"U+0060">> \o Chars("abcdefghijklmnopqrstuvwxyz{|}~")

\* What a byte that is no printable ASCII character decodes to here
Replacement == "U+FFFD"

CharCode(c) == 31 + (CHOOSE i \in 1..Len(Printable) : Printable[i] = c)
CharOf(byte) == IF byte \in 32..126 THEN Printable[byte - 31] ELSE Replacement

\* Buffer.from(text): the UTF-8 bytes of an ASCII text
utf8Bytes(text) == Tuple([i \in 1..Len(text) |-> CharCode(text[i])])

\* buffer.toString('utf8')
utf8String(bytes) == Tuple([i \in 1..Len(bytes) |-> CharOf(bytes[i])])

\* The base64 alphabet, sextet 0 first
Base64Chars ==
  Chars("ABCDEFGHIJKLMNOPQRSTUVWXYZabcdefghijklmnopqrstuvwxyz0123456789+/")

IsBase64Char(c) == \E i \in 1..Len(Base64Chars) : Base64Chars[i] = c
SextetOf(c) == (CHOOSE i \in 1..Len(Base64Chars) : Base64Chars[i] = c) - 1

\* buffer.toString('base64'): three bytes make four characters, the last
\* group is padded with "="
toBase64(bytes) ==
  LET n == Len(bytes)
      Byte(k) == IF k <= n THEN bytes[k] ELSE 0
      Sextet(g, j) ==
        CASE j = 1 -> Byte(3 * g - 2) \div 4
          [] j = 2 -> (Byte(3 * g - 2) % 4) * 16 + Byte(3 * g - 1) \div 16
          [] j = 3 -> (Byte(3 * g - 1) % 16) * 4 + Byte(3 * g) \div 64
          [] j = 4 -> Byte(3 * g) % 64
      Char(g, j) ==
        IF (j = 3 /\ 3 * g - 1 > n) \/ (j = 4 /\ 3 * g > n) THEN "="
        ELSE Base64Chars[Sextet(g, j) + 1]
  IN Tuple([p \in 1..(4 * ((n + 2) \div 3)) |->
              Char(((p - 1) \div 4) + 1, ((p - 1) % 4) + 1)])

\* Buffer.from(text, 'base64'): never throws; decoding ends at the first
\* "=", characters outside the alphabet are skipped, and a trailing group
\* gives the bytes its sextets complete
fromBase64(text) ==
  LET pads == {i \in 1..Len(text) : text[i] = "="}
      end == IF pads = {} THEN Len(text)
             ELSE (CHOOSE i \in pads : \A j \in pads : i <= j) - 1
      kept == SelectSeq(SubSeq(text, 1, end), IsBase64Char)
      m == Len(kept)
      S(k) == SextetOf(kept[k])
      Byte(p) ==
        LET g == 4 * ((p - 1) \div 3)
        IN CASE (p - 1) % 3 = 0 -> S(g + 1) * 4 + S(g + 2) \div 16
             [] (p - 1) % 3 = 1 -> (S(g + 2) % 16) * 16 + S(g + 3) \div 4
             [] (p - 1) % 3 = 2 -> (S(g + 3) % 4) * 64 + S(g + 4)
  IN Tuple([p \in 1..((m * 6) \div 8) |-> Byte(p)])

\* JSON values.  t is the JavaScript type; an object is its keys in
\* insertion order with the values at the same positions.
JValue(t, b, n, str, keys, items) ==
  [t |-> t, b |-> b, n |-> n, s |-> str, keys |-> keys, items |-> items]

JNull == JValue("null", FALSE, 0, <<>>, <<>>, <<>>)
JUndefined == JValue("undefined", FALSE, 0, <<>>, <<>>, <<>>)
JBool(b) == JValue("boolean", b, 0, <<>>, <<>>, <<>>)
JNum(n) == JValue("number", FALSE, n, <<>>, <<>>, <<>>)
JString(chars) == JValue("string", FALSE, 0, chars, <<>>, <<>>)
JStr(str) == JString(Chars(str))
JArr(items) == JValue("array", FALSE, 0, <<>>, <<>>, items)
JObject(keys, items) == JValue("object", FALSE, 0, <<>>, keys, items)
JObj(names, items) ==
  JObject(Tuple([i \in 1..Len(names) |-> Chars(names[i])]), items)

\* The body of a JSON string literal: quotes and backslashes are escaped
RECURSIVE escape(_)
escape(chars) ==
  IF chars = <<>> THEN <<>>
  ELSE (IF chars[1] \in {"\"", "\\"} THEN <<"\\", chars[1]>> ELSE <<chars[1]>>)
       \o escape(Tail(chars))

quote(chars) == <<"\"">> \o escape(chars) \o <<"\"">>

\* JSON.stringify(v) of a value other than undefined, natural numbers only:
\* no white space; a property whose value is undefined is left out, an
\* undefined array element becomes null
RECURSIVE JSONstringify(_), stringifyElements(_, _), stringifyMembers(_, _, _)
JSONstringify(v) ==
  CASE v.t = "null" -> Chars("null")
    [] v.t = "boolean" -> IF v.b THEN Chars("true") ELSE Chars("false")
    [] v.t = "number" -> ToDigits(v.n)
    [] v.t = "string" -> quote(v.s)
    [] v.t = "array" -> <<"[">> \o stringifyElements(v.items, 1) \o <<"]">>
    [] v.t = "object" -> <<"{">> \o stringifyMembers(v, 1, TRUE) \o <<"}">>

stringifyElements(items, i) ==
  IF i > Len(items) THEN <<>>
  ELSE (IF i > 1 THEN <<",">> ELSE <<>>)
       \o (IF items[i].t = "undefined" THEN Chars("null")
           ELSE JSONstringify(items[i]))
       \o stringifyElements(items, i + 1)

stringifyMembers(v, i, first) ==
  IF i > Len(v.keys) THEN <<>>
  ELSE IF v.items[i].t = "undefined" THEN stringifyMembers(v, i + 1, first)
  ELSE (IF first THEN <<>> ELSE <<",">>)
       \o quote(v.keys[i]) \o <<":">> \o JSONstringify(v.items[i])
       \o stringifyMembers(v, i + 1, FALSE)

\* The parser's partial results: the value read and the position after it
ParseFail == [ok |-> FALSE, v |-> JNull, i |-> 0]
Parsed(v, i) == [ok |-> TRUE, v |-> v, i |-> i]

\* The character at position i, "" past the end
At(text, i) == IF i <= Len(text) THEN text[i] ELSE ""

StartsAt(text, i, word) ==
  /\ i + Len(word) - 1 <= Len(text)
  /\ SubSeq(text, i, i + Len(word) - 1) = word

\* A string literal from the character after its opening quote on
RECURSIVE parseString(_, _, _)
parseString(text, i, acc) ==
  IF i > Len(text) THEN ParseFail
  ELSE IF text[i] = "\"" THEN Parsed(JString(acc), i + 1)
  ELSE IF text[i] = "\\"
    THEN IF At(text, i + 1) \in {"\"", "\\", "/"}
           THEN parseString(text, i + 2, Append(acc, text[i + 1]))
           ELSE ParseFail
  ELSE parseString(text, i + 1, Append(acc, text[i]))

\* A number: a lone 0 or digits that do not start with 0
parseNumber(text, i) ==
  LET len == IF text[i] = "0" THEN 1
             ELSE DigitPrefixLen(SubSeq(text, i, Len(text)))
  IN Parsed(JNum(DigitsValue(SubSeq(text, i, i + len - 1))), i + len)

RECURSIVE parseValue(_, _), parseElements(_, _, _), parseMembers(_, _, _, _)
parseValue(text, i) ==
  LET c == At(text, i)
  IN CASE c = "{" ->
            IF At(text, i + 1) = "}" THEN Parsed(JObject(<<>>, <<>>), i + 2)
            ELSE parseMembers(text, i + 1, <<>>, <<>>)
       [] c = "[" ->
            IF At(text, i + 1) = "]" THEN Parsed(JArr(<<>>), i + 2)
            ELSE parseElements(text, i + 1, <<>>)
       [] c = "\"" -> parseString(text, i + 1, <<>>)
       [] IsDigit(c) -> parseNumber(text, i)
       [] c = "n" /\ StartsAt(text, i, Chars("null")) -> Parsed(JNull, i + 4)
       [] c = "t" /\ StartsAt(text, i, Chars("true")) ->
            Parsed(JBool(TRUE), i + 4)
       [] c = "f" /\ StartsAt(text, i, Chars("false")) ->
            Parsed(JBool(FALSE), i + 5)
       [] OTHER -> ParseFail

parseElements(text, i, acc) ==
  LET r == parseValue(text, i)
  IN IF ~r.ok THEN ParseFail
     ELSE IF At(text, r.i) = ","
       THEN parseElements(text, r.i + 1, Append(acc, r.v))
     ELSE IF At(text, r.i) = "]" THEN Parsed(JArr(Append(acc, r.v)), r.i + 1)
     ELSE ParseFail

parseMembers(text, i, keys, items) ==
  IF At(text, i) # "\"" THEN ParseFail
  ELSE LET k == parseString(text, i + 1, <<>>)
       IN IF ~k.ok \/ At(text, k.i) # ":" THEN ParseFail
          ELSE LET r == parseValue(text, k.i + 1)
               IN IF ~r.ok THEN ParseFail
                  ELSE IF At(text, r.i) = ","
                    THEN parseMembers(text, r.i + 1, Append(keys, k.v.s),
                                      Append(items, r.v))
                  ELSE IF At(text, r.i) = "}"
                    THEN Parsed(JObject(Append(keys, k.v.s),
                                        Append(items, r.v)), r.i + 1)
                  ELSE ParseFail

\* JSON.parse(text) of a text without white space: <<v>>, or <<>> when it
\* throws
JSONparse(text) ==
  LET r == parseValue(text, 1)
  IN IF r.ok /\ r.i = Len(text) + 1 THEN Some(r.v) ELSE None

\* createPaymentSignature, line 116:
\* Buffer.from(JSON.stringify(payload)).toString('base64')
Base64Json(v) == toBase64(utf8Bytes(JSONstringify(v)))

\* JSON.parse(Buffer.from(header, 'base64').toString('utf-8'))
ParseBase64Json(encoded) ==
  LET text == utf8String(fromBase64(encoded))
  IN JSONparse(text)

\* A plausible slip: whatever decodes is wrapped in an array
decodeAlwaysWrapping(header) ==
  LET decoded == ParseBase64Json(header)
  IN IF ~IsSome(decoded) THEN None
     ELSE Some(JArr(<<Get(decoded)>>))

\* decodePaymentRequired of x402-fetch.ts on the header's characters: the
\* decoded array, anything else wrapped in a one-element array; <<>> when it
\* throws
decodePaymentRequiredText(header) ==
  LET decoded == ParseBase64Json(header)
  IN IF ~IsSome(decoded) THEN None
     ELSE IF Get(decoded).t = "array" THEN decoded
     ELSE Some(JArr(<<Get(decoded)>>))

\* decodePaymentResponse of the example client: the parsed value, <<>> for
\* the null it returns when the parse throws
decodePaymentResponse(encoded) == ParseBase64Json(encoded)

\* decodePaymentRequired of the example client (main.ts)
decodePaymentRequiredLoose(encoded) == ParseBase64Json(encoded)

\* The values put on the wire
MaxWireAccepts == 2
WireNetworks == {"tron:728126428", "eip155:1"}

\* A PaymentRequirements object, with or without extra.fee
WireRequirement(network, withFee) ==
  IF withFee
    THEN JObj(<<"scheme", "network", "amount", "asset", "payTo", "extra">>,
              <<JStr("exact"), JStr(network), JStr("1000"), JStr("0xA"),
                JStr("0xB"),
                JObj(<<"fee">>,
                     <<JObj(<<"feeTo", "feeAmount">>,
                            <<JStr("0xF"), JStr("10")>>)>>)>>)
    ELSE JObj(<<"scheme", "network", "amount", "asset", "payTo">>,
              <<JStr("exact"), JStr(network), JStr("9007199254740993"),
                JStr("0xA"), JStr("0xB")>>)

WireRequirements ==
  {WireRequirement(n, f) : n \in WireNetworks, f \in BOOLEAN}

\* PaymentPermit.meta as the server's context gives it
WireMeta ==
  JObj(<<"kind", "paymentId", "nonce", "validAfter", "validBefore">>,
       <<JStr("PAYMENT_ONLY"), JStr("0x01"), JStr("7"), JNum(0),
         JNum(1700003600)>>)

\* The PaymentRequired envelope of a 402 response
WireEnvelope(reqs, withContext) ==
  IF withContext
    THEN JObj(<<"x402Version", "error", "accepts", "extensions">>,
              <<JNum(X402Version), JStr("Payment \"required\""), JArr(reqs),
                JObj(<<"paymentPermitContext">>,
                     <<JObj(<<"meta">>, <<WireMeta>>)>>)>>)
    ELSE JObj(<<"x402Version", "accepts">>, <<JNum(X402Version), JArr(reqs)>>)

WireEnvelopes ==
  {WireEnvelope(reqs, c) :
     reqs \in UNION {[1..n -> WireRequirements] : n \in 0..MaxWireAccepts},
     c \in BOOLEAN}

\* The PaymentPayload createPaymentPayload returns (lines 124-133)
WirePayload(req, url) ==
  JObj(<<"x402Version", "resource", "accepted", "payload", "extensions">>,
       <<JNum(X402Version), JObj(<<"url">>, <<JStr(url)>>), req,
         JObj(<<"signature", "paymentPermit">>,
              <<JStr("0xsig"),
                JObj(<<"meta", "buyer", "caller", "payment", "fee">>,
                     <<WireMeta, JStr("0xC"), JStr("0x0"),
                       JObj(<<"payToken", "payAmount", "payTo">>,
                            <<req.items[4], req.items[3], req.items[5]>>),
                       JObj(<<"feeTo", "feeAmount">>,
                            <<JStr("0x0"), JStr("0")>>)>>)>>),
         JObj(<<>>, <<>>)>>)

WirePayloads ==
  {WirePayload(r, u) : r \in WireRequirements, u \in ResourceUrls}

\* The script's own header format: an array of its PaymentRequirement
WireFetchRequirement(network) ==
  JObj(<<"scheme", "network", "amount", "recipient", "currency">>,
       <<JStr("exact"), JStr(network), JStr("1000000"), JStr("TXxx"),
         JStr("USDT")>>)

WireFetchArrays ==
  {JArr(reqs) :
     reqs \in UNION {[1..n -> {WireFetchRequirement(n2) : n2 \in NETWORKS}] :
                       n \in 0..MaxWireAccepts}}

WireValues == WireEnvelopes \cup WirePayloads \cup WireFetchArrays

WireDecoders ==
  {"x402-fetch.decodePaymentRequired", "main.decodePaymentRequired",
   "main.decodePaymentResponse"}

\* What the named decoder makes of a header's characters
Decode(decoder, encoded) ==
  CASE decoder = "x402-fetch.decodePaymentRequired" ->
         decodePaymentRequiredText(encoded)
    [] decoder = "main.decodePaymentRequired" ->
         decodePaymentRequiredLoose(encoded)
    [] decoder = "main.decodePaymentResponse" ->
         decodePaymentResponse(encoded)

InitWire ==
  /\ upc = "in"
  /\ uargs \in [value : WireValues, decoder : WireDecoders]
  /\ uresult = None
  /\ FetchIdle /\ PermitIdle /\ ClientIdle

\* The sender encodes the value into the header's characters
WireEncode ==
  /\ upc = "in"
  /\ upc' = "wire"
  /\ uresult' = Some(Base64Json(uargs.value))
  /\ UNCHANGED <<uargs, fvars, mvars, cvars>>

\* The receiver decodes the header it was sent
WireDecode ==
  /\ upc = "wire"
  /\ upc' = "out"
  /\ uresult' = Decode(uargs.decoder, Get(uresult))
  /\ UNCHANGED <<uargs, fvars, mvars, cvars>>

NextWire ==
  \/ WireEncode
  \/ WireDecode

SpecWire == InitWire /\ [][NextWire]_vars

-----------------------------------------------------------------------------
(* The token registry (tokens.ts) and what SufficientBalancePolicy.apply   *)
(* reads from it.  A registry maps a network to its tokens in insertion    *)
(* order, each under the upper-cased symbol it was registered with.        *)

UpperCase == Chars("ABCDEFGHIJKLMNOPQRSTUVWXYZ")
LowerCase == Chars("abcdefghijklmnopqrstuvwxyz")

\* The characters of str, each letter of alphabet from replaced by the
\* letter of alphabet to at the same place
Recase(str, from, to) ==
  LET cs == Chars(str)
  IN Tuple([i \in 1..Len(cs) |->
       IF \E k \in 1..Len(from) : from[k] = cs[i]
         THEN to[CHOOSE k \in 1..Len(from) : from[k] = cs[i]]
       ELSE cs[i]])

toLowerCase(str) == Recase(str, UpperCase, LowerCase)
toUpperCase(str) == Recase(str, LowerCase, UpperCase)

\* The module-level table, as far as the requirements of the model go: the
\* USDT of eip155:97, its contract address written T1
TOKENS ==
  (NetBscTestnet :>
     <<[key |-> toUpperCase("USDT"),
        token |-> [address |-> "T1", decimals |-> 18, symbol |-> "USDT"]]>>)

\* registerToken: the network's table is created when there is none; a
\* symbol already there keeps its place and gets the new token
registerToken(tokens, network, token) ==
  LET table == IF network \in DOMAIN tokens THEN tokens[network] ELSE <<>>
      key == toUpperCase(token.symbol)
      added == [key |-> key, token |-> token]
      at == {i \in 1..Len(table) : table[i].key = key}
      stored == IF at = {} THEN Append(table, added)
                ELSE Tuple([i \in 1..Len(table) |->
                       IF i \in at THEN added ELSE table[i]])
  IN (network :> stored) @@ tokens

\* findByAddress: the first token of the network whose address is the
\* given one, letter case aside; <<>> for undefined
findByAddress(tokens, network, address) ==
  IF network \notin DOMAIN tokens THEN None
  ELSE LET table == tokens[network]
           at == {i \in 1..Len(table) :
                    toLowerCase(table[i].token.address) = toLowerCase(address)}
       IN IF at = {} THEN None
          ELSE Some(table[CHOOSE i \in at : \A j \in at : i <= j].token)

\* getDecimals: the registered decimals of the requirement's asset, else 6
getDecimals(tokens, req) ==
  LET token == findByAddress(tokens, req.network, req.asset)
  IN IF IsSome(token) THEN Get(token).decimals ELSE 6

\* Number.prototype.toFixed(decimals) throws a RangeError outside 0..100
toFixedAccepts(decimals) == decimals \in 0..100

\* The whole units of a bigint below 10^9 at the given decimals
Whole(b, decimals) ==
  b.lo \div (10 ^ (IF decimals < 9 THEN decimals ELSE 9))

\* A plausible slip: the amounts are compared as the log line shows them
KeepsAsDisplayed(look, decimals) ==
  Whole(look.balance, decimals) >= Whole(Needed(look.req), decimals)

\* apply, lines 104-113: the comparison is on the raw amounts; the
\* decimals only go into the text of the log line
Keeps(look, decimals) == look.kept

\* apply on the requirements reqs, the i-th balance query ending as
\* outcomes[i], with the registry tokens: the array it returns, or the
\* error it rejects with
RECURSIVE applyFrom(_, _, _, _, _, _)
applyFrom(tokens, signers, reqs, outcomes, i, kept) ==
  IF i > Len(reqs) THEN Returned(kept)
  ELSE LET look == Look(signers, reqs[i], outcomes[i])
           decimals == getDecimals(tokens, reqs[i])
       IN IF look.saw \in {"nosigner", "threw"}
            THEN applyFrom(tokens, signers, reqs, outcomes, i + 1,
                           push(kept, reqs[i]))
          ELSE IF ~toFixedAccepts(decimals) THEN Threw("RangeError")
          ELSE applyFrom(tokens, signers, reqs, outcomes, i + 1,
                         IF Keeps(look, decimals) THEN push(kept, reqs[i])
                         ELSE kept)

apply(tokens, signers, reqs, outcomes) ==
  applyFrom(tokens, signers, reqs, outcomes, 1, <<>>)

MaxRegisterToken == 2
MaxApply == 2

\* The registerToken calls of the model: USDT again with other decimals, a
\* token of another address, a table for a network that has none, and a
\* second symbol for the address of USDT
RegisterTokenCalls ==
  {[network |-> NetBscTestnet,
    token |-> [address |-> "t1", decimals |-> 6, symbol |-> "usdt"]],
   [network |-> NetBscTestnet,
    token |-> [address |-> "t1", decimals |-> 101, symbol |-> "usdt"]],
   [network |-> NetBscTestnet,
    token |-> [address |-> "T2", decimals |-> 101, symbol |-> "NEW"]],
   [network |-> NetBscMainnet,
    token |-> [address |-> "T1", decimals |-> 6, symbol |-> "USDT"]],
   [network |-> NetBscTestnet,
    token |-> [address |-> "T1", decimals |-> 6, symbol |-> "NEW"]]}

\* The requirements the policy is asked about
TokenRequirements ==
  {r \in Requirements :
     /\ r.scheme = "exact"
     /\ r.fee = None
     /\ \/ r.network = NetBscTestnet /\ r.amount \in {Amt500000, Amt1000000}
        \/ r.network = NetTronMainnet /\ r.amount = Amt500000}

\* One policy, the same requirements and the same balances throughout; the
\* registry is the module's table
InitTokens ==
  /\ upc = "tokens"
  /\ \E reqs \in [1..2 -> TokenRequirements] :
       \E outcomes \in [1..2 -> {Some(b) : b \in Balances}] :
         uargs = [tokens |-> TOKENS, registered |-> 0, signers |-> PolicySingle,
                  reqs |-> reqs, outcomes |-> outcomes]
  /\ uresult = <<>>
  /\ FetchIdle /\ PermitIdle /\ ClientIdle

\* Somebody registers a token
TokensRegister ==
  /\ upc = "tokens"
  /\ uargs.registered < MaxRegisterToken
  /\ \E c \in RegisterTokenCalls :
       uargs' = [uargs EXCEPT
                   !.tokens = registerToken(@, c.network, c.token),
                   !.registered = @ + 1]
  /\ UNCHANGED <<upc, uresult, fvars, mvars, cvars>>

\* The policy is applied with the registry as it is now
TokensApply ==
  /\ upc = "tokens"
  /\ Len(uresult) < MaxApply
  /\ uresult' = Append(uresult,
       [tokens |-> uargs.tokens,
        result |-> apply(uargs.tokens, uargs.signers, uargs.reqs,
                         uargs.outcomes)])
  /\ UNCHANGED <<upc, uargs, fvars, mvars, cvars>>

NextTokens ==
  \/ TokensRegister
  \/ TokensApply

SpecTokens == InitTokens /\ [][NextTokens]_vars

\* One call of createPaymentPayload on a mechanism whose signer is an
\* EvmClientSigner, or one direct call of that signer's ensureAllowance
PermitStart ==
  /\ mpc = "start"
  /\ entry \in {"builder", "direct"}
  /\ mreq \in {Some(r) : r \in Requirements \cup SignerOnlyRequirements}
  /\ mext \in (IF entry = "builder" THEN {None} \cup {Some(c) : c \in Contexts}
               ELSE {None})
  /\ mresource \in (IF entry = "builder" THEN ResourceUrls ELSE {ResourceUrl})
  /\ mech = Some([id |-> 1, scheme |-> "exact"])
  /\ eaMode \in (IF entry = "builder" THEN {"auto"} ELSE Modes)
  /\ eaArgs = None
  /\ eaReturn = NoResult
  /\ publicClients = {}
  /\ calls = <<>>
  /\ permit = None
  /\ signedMsg = None
  /\ mresult = NoResult

InitPermit == PermitStart /\ FetchIdle /\ ClientIdle /\ PureIdle

NextPermit ==
  \/ BuilderSteps
  \/ DirectStart
  \/ DirectReturn

SpecPermit == InitPermit /\ [][NextPermit]_vars

\* One createPaymentPayload call while other request cycles run on the same
\* signer: between any two of its steps another cycle may reach
\* getPublicClient, which writes the signer's publicClients
OtherCycleGetPublicClient ==
  /\ entry = "builder"
  /\ \E network \in Networks :
       /\ IsSome(parseNetworkToChainId(network))
       /\ publicClients' =
            getPublicClient(Get(parseNetworkToChainId(network)),
                            publicClients).clients
       /\ publicClients' # publicClients
  /\ UNCHANGED <<mpc, mreq, mext, mresource, mech, eaMode, eaArgs, eaReturn,
                 entry, calls, permit, signedMsg, mresult>>
  /\ UNCHANGED <<fvars, cvars, uvars>>

InitCycles == InitPermit /\ entry = "builder"

NextCycles ==
  \/ BuilderSteps
  \/ OtherCycleGetPublicClient

SpecCycles == InitCycles /\ [][NextCycles]_vars

\* One call of SufficientBalancePolicy.apply
PolicyRequirements ==
  {r \in Requirements : r.scheme = "exact"}

PolicyStart ==
  /\ cpc = "policy"
  /\ registry = <<>>
  /\ policies \in {<<PolicySingle>>, <<PolicyEvmOnly>>, <<PolicyTwo>>,
                    <<PolicyOverlap>>}
  /\ accepts \in SeqsUpTo(PolicyRequirements, MaxAccepts)
  /\ cext = None
  /\ chainIn = accepts
  /\ pIdx = 1
  /\ rIdx = 1
  /\ affordable = <<>>
  /\ balLog = <<>>
  /\ chainLog = <<>>
  /\ selInput = None
  /\ cselected = None
  /\ cresult = NoResult

InitPolicy == PolicyStart /\ FetchIdle /\ PermitIdle /\ PureIdle

NextPolicy ==
  \/ PolicyLook
  \/ PolicyReturn

SpecPolicy == InitPolicy /\ [][NextPolicy]_vars

\* A client is configured by register calls, then runs one selectAndPay
ClientStart ==
  /\ cpc = "config"
  /\ registry = <<>>
  /\ policies \in PolicyChains
  /\ accepts \in SeqsUpTo(OfferedRequirements, MaxAccepts)
  /\ cext \in {None, Some(DefaultContext)}
  /\ chainIn = <<>>
  /\ pIdx = 0
  /\ rIdx = 0
  /\ affordable = <<>>
  /\ balLog = <<>>
  /\ chainLog = <<>>
  /\ selInput = None
  /\ cselected = None
  /\ cresult = NoResult

Init == ClientStart /\ FetchIdle /\ PermitIdle /\ PureIdle

Next ==
  \/ Register
  \/ SelectAndPay
  \/ PolicyLook
  \/ PolicyReturn
  \/ Select
  \/ BuilderSteps
  \/ ClientReturn

Spec == Init /\ [][Next]_vars

-----------------------------------------------------------------------------
(* Properties                                                              *)

Range(f) == {f[i] : i \in DOMAIN f}

\* The subsequence of s at the positions keep(i) holds for
RECURSIVE FilterByIndex(_, _, _)
FilterByIndex(s, keep(_), i) ==
  IF i > Len(s) THEN <<>>
  ELSE (IF keep(i) THEN <<s[i]>> ELSE <<>>) \o FilterByIndex(s, keep, i + 1)

\* What policy k saw at position i of its input
LookAt(k, i) == (CHOOSE e \in Range(balLog) : e.p = k /\ e.i = i).look

\* A requirement's amount plus its fee amount (0 without a fee)
AmountPlusFee(req) ==
  BigAdd(BigInt(req.amount),
         IF IsSome(req.fee) THEN BigInt(Get(req.fee).feeAmount) ELSE Big(0))

HasCall(op) == \E i \in 1..Len(calls) : calls[i].op = op

C3_NoSigningAfterFailedApproval ==
  (entry = "builder" /\ HasCall("approve.failed")) =>
    /\ ~HasCall("signTypedData.call")
    /\ mpc = "done" => mresult = Threw("InsufficientAllowanceError")

(* C11: a createPaymentPayload call without the payment permit context     *)
(* ends with the missing-context error before any signer operation: no     *)
(* ensureAllowance, no signTypedData, no permit and no signature.          *)
C11_MissingContextAborts ==
  (entry = "builder" /\ mext = None /\ mpc # "start" /\ mpc # "idle") =>
    /\ mpc = "done"
    /\ mresult = Threw("PermitValidationError:missing_context")
    /\ calls = <<>>
    /\ eaArgs = None
    /\ permit = None
    /\ signedMsg = None

\* A call without a context has ended
C11_Witness ==
  /\ entry = "builder"
  /\ mext = None
  /\ mreq # None
  /\ mpc = "done"
  /\ mresult = Threw("PermitValidationError:missing_context")

(* C5: the output of SufficientBalancePolicy.apply is its input without    *)
(* the requirements it dropped, and a requirement for which the signer     *)
(* answered the balance query with B is kept iff B >= amount + fee amount. *)
C5_KeptIffAffordable ==
  \A k \in 1..Len(chainLog) :
    LET keep(i) ==
          IF LookAt(k, i).saw = "answered"
            THEN BigGe(LookAt(k, i).balance, AmountPlusFee(chainLog[k].input[i]))
          ELSE LookAt(k, i).kept
    IN chainLog[k].output = FilterByIndex(chainLog[k].input, keep, 1)

\* Two requirements with a fee, answered with exactly amount + fee (kept)
\* and with less (dropped)
C5_Witness ==
  /\ Len(chainLog) = 1
  /\ Len(chainLog[1].input) = 2
  /\ IsSome(chainLog[1].input[1].fee)
  /\ LookAt(1, 1).saw = "answered"
  /\ LookAt(1, 1).balance = AmountPlusFee(chainLog[1].input[1])
  /\ LookAt(1, 2).saw = "answered"
  /\ ~BigGe(LookAt(1, 2).balance, AmountPlusFee(chainLog[1].input[2]))
  /\ chainLog[1].output = <<chainLog[1].input[1]>>

(* C6: a requirement whose network has no configured signer, or whose      *)
(* balance query fails, is in the output of SufficientBalancePolicy.apply. *)
C6_FailOpen ==
  \A k \in 1..Len(chainLog) :
    \A i \in 1..Len(chainLog[k].input) :
      LookAt(k, i).saw \in {"nosigner", "threw", "queryfailed"} =>
        chainLog[k].input[i] \in Range(chainLog[k].output)

\* A registered entry serves a requirement: network by pattern, and scheme
Serves(e, req) ==
  /\ \/ e.pattern = req.network
     \/ /\ EndsWith(e.pattern, <<":", "*">>)
        /\ StartsWith(req.network, SubSeq(e.pattern, 1, Len(e.pattern) - 1))
  /\ e.mech.scheme = req.scheme

ChainOutput ==
  IF policies = <<>> THEN accepts ELSE chainLog[Len(chainLog)].output

C9_EmptyChainOutputFails ==
  /\ (IsSome(selInput) /\ Get(selInput) = <<>>) =>
       /\ cresult = Threw("NoAcceptablePaymentError")
       /\ cselected = None
       /\ mpc = "idle"
       /\ calls = <<>>
  /\ (/\ cpc = "done"
      /\ accepts = <<ReqExactBsc>>
      /\ policies = <<PolicySingle>>
      /\ LookAt(1, 1).saw = "answered"
      /\ LookAt(1, 1).balance = Big(500000)) =>
       cresult = Threw("NoAcceptablePaymentError")

\* The scenario, with a mechanism registered for the offer's network
C9_Witness ==
  /\ cpc = "done"
  /\ accepts = <<ReqExactBsc>>
  /\ BigInt(accepts[1].amount) = Big(1000000)
  /\ policies = <<PolicySingle>>
  /\ LookAt(1, 1).saw = "answered"
  /\ LookAt(1, 1).balance = Big(500000)
  /\ Len(registry) >= 1
  /\ Serves(registry[1], accepts[1])
  /\ cresult = Threw("NoAcceptablePaymentError")

(* C10: when the policy chain's output is not empty and no registered      *)
(* mechanism serves any of its requirements, selectAndPay fails with       *)
(* UnsupportedNetworkError or UnsupportedSchemeError and no payload is     *)
(* built or signed.                                                        *)
C10_NoMechanismFails ==
  (/\ IsSome(selInput)
   /\ Get(selInput) # <<>>
   /\ \A j \in 1..Len(Get(selInput)) :
        \A i \in 1..Len(registry) : ~Serves(registry[i], Get(selInput)[j])) =>
    /\ cresult \in {Threw("UnsupportedNetworkError"), Threw("UnsupportedSchemeError")}
    /\ cselected = None
    /\ mpc = "idle"
    /\ calls = <<>>
    /\ cpc = "done"

\* A mechanism is registered for the network, but for another scheme
C10_Witness ==
  /\ cpc = "done"
  /\ IsSome(selInput)
  /\ Get(selInput) = <<ReqNativeBsc>>
  /\ Len(registry) >= 1
  /\ cresult = Threw("UnsupportedSchemeError")

\* A pattern of the form "<ns>:*" and a network id that starts with "<ns>:"
WildcardCovers(pattern, network) ==
  \E k \in 0..Len(pattern) :
    /\ Len(pattern) = k + 2
    /\ pattern[k + 1] = ":"
    /\ pattern[k + 2] = "*"
    /\ Len(network) >= k + 1
    /\ \A i \in 1..(k + 1) : network[i] = pattern[i]

(* C12: matchPattern(pattern, network) is true iff the two are equal, or   *)
(* the pattern is "<ns>:*" and the network id starts with "<ns>:"; "ns:*"  *)
(* matches "ns:123" and "ns:" and does not match "nsx:123".                *)
C12_MatchPattern ==
  upc = "out" =>
    /\ Get(uresult) =
         (uargs.pattern = uargs.network \/ WildcardCovers(uargs.pattern, uargs.network))
    /\ (uargs.pattern = NsWild /\ uargs.network \in {Ns123, NsColon}) => Get(uresult)
    /\ (uargs.pattern = NsWild /\ uargs.network = Nsx123) => ~Get(uresult)

\* "ns:*" was matched against "nsx:123" and did not match
C12_Witness ==
  /\ upc = "out"
  /\ uargs = [pattern |-> NsWild, network |-> Nsx123]
  /\ uresult = Some(FALSE)

(* C14: when the status of the initial response is not payment-required,   *)
(* x402Fetch returns that response and takes no payment path: nothing is   *)
(* selected or signed and no second request is issued.                     *)
C14_NoPaymentPathWithout402 ==
  (Len(responses) >= 1 /\ responses[1].status # PaymentRequiredStatus) =>
    /\ fpc = "done"
    /\ fetchResult = Returned(1)
    /\ Len(requests) = 1
    /\ Len(responses) = 1
    /\ fselected = None

\* A server error whose header offers a payment is returned as it is
C14_Witness ==
  /\ fpc = "done"
  /\ Len(responses) = 1
  /\ responses[1].status = 500
  /\ IsSome(responses[1].header)
  /\ Get(responses[1].header).valid
  /\ Get(responses[1].header).items # <<>>
  /\ options.hasKey
  /\ ~options.dryRun
  /\ fetchResult = Returned(1)

(* C15: when the initial response is payment-required and its              *)
(* payment-required header does not decode, x402Fetch fails at once with   *)
(* the decoding error: nothing is selected or signed, no retry is issued.  *)
C15_UndecodableHeaderFails ==
  (/\ Len(responses) >= 1
   /\ responses[1].status = PaymentRequiredStatus
   /\ IsSome(responses[1].header)
   /\ ~Get(responses[1].header).valid) =>
    /\ fpc = "done"
    /\ fetchResult = Threw("Failed to decode PAYMENT-REQUIRED header")
    /\ Len(requests) = 1
    /\ Len(responses) = 1
    /\ fselected = None

\* An undecodable header, with a key at hand and no dry run
C15_Witness ==
  /\ fpc = "done"
  /\ Len(responses) = 1
  /\ responses[1].status = PaymentRequiredStatus
  /\ IsSome(responses[1].header)
  /\ ~Get(responses[1].header).valid
  /\ options.hasKey
  /\ ~options.dryRun
  /\ fetchResult.kind = "error"

(* C16: the retried request has the method, the body and the other headers *)
(* of the initial request; it differs by the added payment-signature       *)
(* header only.                                                            *)
C16_RetryPreservesRequest ==
  Len(requests) = 2 =>
    /\ requests[2].method = requests[1].method
    /\ requests[2].body = requests[1].body
    /\ ~IsSome(requests[1].headers.paymentSignature)
    /\ IsSome(requests[2].headers.paymentSignature)
    /\ requests[2].headers =
         [requests[1].headers EXCEPT
            !.paymentSignature = requests[2].headers.paymentSignature]

\* A POST with a body and its Content-Type header is retried
C16_Witness ==
  /\ Len(requests) = 2
  /\ requests[1].method = "POST"
  /\ IsSome(requests[1].body)
  /\ IsSome(requests[1].headers.contentType)
  /\ IsSome(requests[2].headers.contentType)

\* The signer's call log holds an allowance query
Queried == HasCall("allowance.answer") \/ HasCall("allowance.failure")

\* The number of log entries of an operation
CountCalls(op) == Cardinality({i \in 1..Len(calls) : calls[i].op = op})

(* C17: ensureAllowance in interactive mode never submits an approval      *)
(* transaction: with the current allowance below the requested amount it   *)
(* fails at once with InsufficientAllowanceError, and with a sufficient    *)
(* allowance it succeeds without a transaction.                            *)
C17_InteractiveNeverApproves ==
  (eaMode = "interactive" /\ IsSome(eaArgs)) =>
    /\ ~HasCall("approve.send")
    /\ ~HasCall("approve.sent")
    /\ mpc \notin {"ea_write", "ea_receipt"}
    /\ \A i \in 1..Len(calls) :
         calls[i].op \in {"allowance.answer", "allowance.failure"} =>
           eaReturn = (IF BigGe(calls[i].n, Get(eaArgs).amount)
                         THEN Returned(TRUE)
                       ELSE Threw("InsufficientAllowanceError"))

\* An interactive call that found too small an allowance has failed
C17_Witness ==
  /\ eaMode = "interactive"
  /\ mpc = "done"
  /\ \E i \in 1..Len(calls) :
       /\ calls[i].op = "allowance.answer"
       /\ calls[i].n # Big(0)
       /\ ~BigGe(calls[i].n, Get(eaArgs).amount)
  /\ mresult = Threw("InsufficientAllowanceError")

(* C18: ensureAllowance in auto mode queries the allowance first; with an  *)
(* allowance of at least the requested amount it succeeds without a        *)
(* transaction; otherwise it submits exactly one approval transaction, for *)
(* the maximal amount, waits for its receipt, and returns success iff the  *)
(* receipt's status is success.                                            *)
C18_AutoApprovesOnce ==
  (eaMode = "auto" /\ IsSome(eaArgs)) =>
    /\ CountCalls("approve.send") <= 1
    /\ \A i \in 1..Len(calls) :
         /\ calls[i].op = "approve.send" =>
              /\ calls[i].n = MaxUint256
              /\ i > 1
              /\ calls[i - 1].op \in {"allowance.answer", "allowance.failure"}
         /\ calls[i].op \in {"allowance.answer", "allowance.failure"} =>
              IF BigGe(calls[i].n, Get(eaArgs).amount)
                THEN ~HasCall("approve.send") /\ eaReturn = Returned(TRUE)
              ELSE HasCall("approve.send")
    /\ (HasCall("approve.send") /\ eaReturn # NoResult) =>
         /\ eaReturn = Returned(HasCall("approve.confirmed"))
         /\ HasCall("approve.confirmed") => HasCall("approve.sent")
    /\ (eaReturn # NoResult /\ eaReturn.kind = "value") => Queried

\* An approval that was sent and reverted: ensureAllowance returned false
C18_Witness ==
  /\ eaMode = "auto"
  /\ entry = "direct"
  /\ mpc = "done"
  /\ HasCall("allowance.answer")
  /\ HasCall("approve.sent")
  /\ ~HasCall("approve.confirmed")
  /\ mresult = Returned(FALSE)

(* C19: ensureAllowance in skip mode returns success without an allowance  *)
(* query and without a transaction.                                        *)
C19_SkipIsNoOp ==
  (eaMode = "skip" /\ IsSome(eaArgs)) =>
    /\ eaReturn = Returned(TRUE)
    /\ ~Queried
    /\ ~HasCall("approve.send")
    /\ publicClients = {}
    /\ mpc \in {"ea_returned", "done"}
    /\ mpc = "done" => mresult = Returned(TRUE)

\* A skip call on a network the signer has no chain for has succeeded
C19_Witness ==
  /\ eaMode = "skip"
  /\ mpc = "done"
  /\ Get(eaArgs).network = NetTronMainnet
  /\ mresult = Returned(TRUE)
  /\ Len(calls) = 2

(* C20: when the balance query fails, checkBalance hands the failure to    *)
(* its caller: no caller gets a balance, and in particular not a balance   *)
(* of zero, from a query that failed.                                      *)
C20_BalanceFailureSurfaces ==
  \A e \in Range(balLog) :
    ~(e.look.saw = "queryfailed" /\ e.look.balance = Big(0))

(* C21: a failed allowance query reaches the caller of the permit builder  *)
(* as an error: it is not taken for an allowance of zero and no approval   *)
(* transaction follows it.                                                 *)
C21_AllowanceFailurePropagates ==
  (entry = "builder" /\ HasCall("allowance.failure")) =>
    /\ ~HasCall("approve.send")
    /\ ~HasCall("signTypedData.call")
    /\ \A i \in 1..Len(calls) :
         calls[i].op = "allowance.failure" => calls[i].n # Big(0)
    /\ mpc = "done" => mresult.kind = "error"

\* The PaymentPermit of the payload createPaymentPayload returned
ReturnedPermit == Get(mresult.value).payload.paymentPermit

\* createPaymentPayload has returned a PaymentPayload
PayloadReturned ==
  /\ entry = "builder"
  /\ mpc = "done"
  /\ mresult.kind = "value"

Decimal(b) ==
  IF b.hi = 0 THEN ToDigits(b.lo)
  ELSE ToDigits(b.hi) \o Tail(ToDigits(LimbBase + b.lo))

C28_ValidityWindow ==
  upc = "in" =>
    /\ \A i \in 1..Len(uresult) :
         /\ uresult[i].validAfter < uresult[i].validBefore
         /\ uresult[i].validBefore - uresult[i].validAfter = ValidityDuration
    /\ \A i, j \in 1..Len(uresult) :
         uresult[i].validBefore - uresult[i].validAfter =
           uresult[j].validBefore - uresult[j].validAfter

\* Two windows made at different times
C28_Witness ==
  /\ upc = "in"
  /\ Len(uresult) = 2
  /\ uresult[1].validAfter < uresult[2].validAfter
  /\ uresult[2].validAfter = uargs.now

(* C29: decoding the base64-JSON text produced by encoding a payment       *)
(* payload or a payment-required envelope yields the original value.  As   *)
(* the code has it: the example client's decoders yield the original; the  *)
(* script's decodePaymentRequired yields the original when it is an array  *)
(* and a one-element array holding the original otherwise.                 *)
C29_RoundTripOrWrapped ==
  upc = "out" =>
    IF uargs.decoder = "x402-fetch.decodePaymentRequired"
         /\ uargs.value.t # "array"
      THEN uresult = Some(JArr(<<uargs.value>>))
      ELSE uresult = Some(uargs.value)

\* The script's decoder has decoded an encoded envelope with two requirements
C29_Witness ==
  /\ upc = "out"
  /\ uargs.decoder = "x402-fetch.decodePaymentRequired"
  /\ \E r1, r2 \in WireRequirements :
       r1 # r2 /\ uargs.value = WireEnvelope(<<r1, r2>>, TRUE)
  /\ uresult = Some(JArr(<<uargs.value>>))

\* The statement as written: every decoder yields the original value
C29_RoundTrip ==
  upc = "out" => uresult = Some(uargs.value)

(* C30: when the client is configured with no policy, the sequence used    *)
(* for mechanism selection is the envelope's accepts sequence itself: the  *)
(* same requirements in the same order, none removed.                      *)
C30_NoPolicyPassesThrough ==
  (policies = <<>> /\ IsSome(selInput)) => Get(selInput) = accepts

\* Without a policy, selection has looked at two different requirements
C30_Witness ==
  /\ policies = <<>>
  /\ cpc = "done"
  /\ IsSome(selInput)
  /\ Len(accepts) = 2
  /\ accepts[1] # accepts[2]
  /\ Get(selInput) = accepts

AloneResult ==
  IF ~IsSome(mext) THEN OnMissingContext.result
  ELSE LET req == Get(mreq)
           p == BuildPermit(req, Get(mext), BuyerAddress)
           e == EnsureAllowanceEntry(req.network, eaMode, {})
       IN IF e.pc = "ea_threw" THEN e.ret
          ELSE IF AfterAllowance(req, p).pc = "done" THEN AfterAllowance(req, p).result
          ELSE IF HasCall("signTypedData.throw")
            THEN OnSignFailure("signing failed").result
          ELSE Returned(BuildPayload(req, mresource, "0xsig", p))

C34_CycleTerminates ==
  /\ <>[](fpc = "done" /\ fetchResult.kind \in {"value", "error"})
  /\ [][fpc' = "signing" => fpc \in {"await1", "signing"}]_vars

\* A cycle that paid has ended with the response to the retry
C34_Witness ==
  /\ fpc = "done"
  /\ Len(requests) = 2
  /\ Len(responses) = 2
  /\ responses[2].status = PaymentRequiredStatus
  /\ fetchResult = Returned(2)

\* Whether a (pattern, signer) entry of the policy covers a network
SignerEntryCovers(e, network) ==
  e.pattern = PatAny \/ matchPattern(e.pattern, network)

(* C35: the signer SufficientBalancePolicy consults for a requirement is   *)
(* the first configured (pattern, signer) entry whose pattern is "*" or    *)
(* matches the requirement's network, no later entry; a policy built from  *)
(* a single signer consults that signer for every network; with no entry   *)
(* covering the network no signer is consulted.                            *)
C35_FirstMatchingSigner ==
  \A k \in 1..Len(balLog) :
    LET T == policies[balLog[k].p]
        l == balLog[k].look
        covering == {i \in 1..Len(T) : SignerEntryCovers(T[i], l.req.network)}
    IN /\ covering = {} => (l.signer = None /\ l.saw = "nosigner")
       /\ covering # {} =>
            /\ IsSome(l.signer)
            /\ \E i \in covering :
                 /\ \A j \in covering : i <= j
                 /\ Get(l.signer) = T[i].signer
       /\ T = PolicySingle => l.signer = Some("s1")

\* Two entries cover the requirement's network and name different signers;
\* the first one's signer answered
C35_Witness ==
  /\ policies = <<PolicyOverlap>>
  /\ \E k \in 1..Len(balLog) :
       /\ balLog[k].look.req.network = NetBscTestnet
       /\ balLog[k].look.signer = Some("s1")
       /\ balLog[k].look.saw = "answered"

\* Whether sub is s with some of its elements left out, order kept
IsSubsequence(sub, s) ==
  \E f \in [1..Len(sub) -> 1..Len(s)] :
    /\ \A i, j \in 1..Len(sub) : i < j => f[i] < f[j]
    /\ \A i \in 1..Len(sub) : sub[i] = s[f[i]]

(* C36: the output of SufficientBalancePolicy.apply is an order-preserving *)
(* subsequence of its input (nothing added, duplicated, reordered or       *)
(* modified), at every point of the loop and at its return, and the        *)
(* balance is queried at most once for each input requirement.             *)
C36_OutputIsSubsequence ==
  /\ \A k \in 1..Len(chainLog) :
       IsSubsequence(chainLog[k].output, chainLog[k].input)
  /\ cpc = "policy" =>
       IsSubsequence(affordable, SubSeq(chainIn, 1, rIdx - 1))
  /\ \A a, b \in 1..Len(balLog) :
       (balLog[a].p = balLog[b].p /\ balLog[a].i = balLog[b].i) => a = b

\* Both of two different requirements were kept, in the order offered
C36_Witness ==
  /\ Len(balLog) = 2
  /\ LookAt(1, 1).saw = "answered"
  /\ LookAt(1, 2).saw = "answered"
  /\ Len(chainLog) = 1
  /\ Len(chainLog[1].input) = 2
  /\ chainLog[1].input[1] # chainLog[1].input[2]
  /\ chainLog[1].output = chainLog[1].input

(* C37: every approval transaction ensureAllowance submits, and every      *)
(* allowance query, names as spender a PaymentPermit address configured    *)
(* for the requirement's network, never the zero-address fallback of       *)
(* getPaymentPermitAddress.                                                *)
C37_SpenderIsConfigured ==
  /\ \A i \in 1..Len(calls) :
       calls[i].op = "approve.sent" =>
         /\ Get(eaArgs).network \in DOMAIN PAYMENT_PERMIT_ADDRESSES
         /\ calls[i].n = PAYMENT_PERMIT_ADDRESSES[Get(eaArgs).network]
         /\ calls[i].n # TRON_ZERO_ADDRESS
  /\ Queried => getPaymentPermitAddress(Get(eaArgs).network) # TRON_ZERO_ADDRESS

(* C38: when createPaymentPayload fails because the requirement's network  *)
(* has no known chain id, no approval transaction has been submitted and   *)
(* no signature has been requested.                                        *)
C38_UnknownChainFailsFirst ==
  (/\ entry = "builder"
   /\ mpc = "done"
   /\ IsSome(mext)
   /\ ~IsSome(getChainId(Get(mreq).network))) =>
    /\ mresult.kind = "error"
    /\ ~HasCall("approve.send")
    /\ ~HasCall("approve.sent")
    /\ ~HasCall("signTypedData.call")

\* apply formatted every amount it logged with this registry
FormatsAll(tokens) ==
  \A i \in 1..Len(uargs.reqs) :
    Look(uargs.signers, uargs.reqs[i], uargs.outcomes[i]).saw
        \notin {"nosigner", "threw"} =>
      toFixedAccepts(getDecimals(tokens, uargs.reqs[i]))

(* C39: two runs of apply that differ only in the contents of the token    *)
(* registry return the same output, provided the decimals registered for   *)
(* the assets whose balance was read are within 0..100; with decimals      *)
(* outside that range the run rejects with a RangeError instead.           *)
C39_RegistryNotRead ==
  upc = "tokens" =>
    /\ \A i, j \in 1..Len(uresult) :
         (uresult[i].result.kind = "value" /\ uresult[j].result.kind = "value")
           => uresult[i].result = uresult[j].result
    /\ \A i \in 1..Len(uresult) :
         /\ uresult[i].result.kind = "value" <=> FormatsAll(uresult[i].tokens)
         /\ uresult[i].result.kind = "error" =>
              uresult[i].result.error = "RangeError"

\* Two runs with registries that give the asset different decimals: one
\* requirement kept and one dropped in both
C39_Witness ==
  /\ upc = "tokens"
  /\ Len(uresult) = 2
  /\ uresult[1].tokens # uresult[2].tokens
  /\ getDecimals(uresult[1].tokens, uargs.reqs[1])
       # getDecimals(uresult[2].tokens, uargs.reqs[1])
  /\ uresult[1].result.kind = "value"
  /\ uresult[2].result = uresult[1].result
  /\ Len(Get(uresult[1].result.value)) = 1

\* The claim as the specification states it: whatever the registry holds
C39_SameOutputWhateverRegistry ==
  upc = "tokens" =>
    \A i, j \in 1..Len(uresult) : uresult[i].result = uresult[j].result

====
